---- MODULE Spec2Model ----
(***************************************************************************)
(* RapiRuff-Helper: the guild/user configuration cache (utils/             *)
(* config_manager.py) and the spam heuristics of the statistics cog        *)
(* (cogs/statistics.py), as state machines.                                *)
(*                                                                         *)
(* Python values are written as their repr strings ("True", "(1, 2)");     *)
(* JSON texts as the text json.dumps produces ("true", "[1, 2]").          *)
(* A Python dict is a function whose DOMAIN is the set of its keys.        *)
(***************************************************************************)
EXTENDS Integers, Sequences, FiniteSets, TLC

VARIABLES
    guild_cache,     \* ConfigManager.guild_cache : guild id -> config dict
    user_cache,      \* ConfigManager.user_cache  : user id  -> config dict
    guildRows,       \* table of GuildSettings rows, keyed by guild_id
    userRows,        \* table of UserSettings rows, keyed by user_id
    toggleDefault,   \* column default of the three GuildSettings toggles
    ret,             \* the last ConfigManager call a command made, and its result
    lastWrite,       \* per guild: key -> value of the last successful update
    config,          \* config.SPAM_*: the thresholds loaded at process start
    content,         \* the message text handed to a detector
    detect,          \* the detector applied to content, and what it returned
    spam_cache,      \* Statistics.spam_cache : user id -> list of (hash, time)
    now,             \* the clock datetime.utcnow() reads, in seconds
    userTable,       \* table of User rows, keyed by user_id
    spamStats,       \* table of SpamStats rows, keyed by (user, spam_type)
    emoji_stats,     \* Statistics.emoji_stats : user id -> that user's emoji counters
    emoji_file,      \* EMOJI_STATS_FILE: what was last dumped to it, and how often it was written
    seen,            \* per user: every (hash, time) handed to the repeated-message rule
    written,         \* per (user, spam_type): the messages recorded with a successful save
    last,            \* the last message on_message handled, and what spam detection made of it
    sends,           \* messages handled so far
    callSessions,    \* table of CallSession rows, in insertion order
    voice,           \* per member: the voice channel Discord has the member in
    rates,           \* CurrencyConverter.rates : currency -> rate against USD
    last_update,     \* CurrencyConverter.last_update, in seconds
    task,            \* per /convert handler: where it is suspended, and its locals
    reply,           \* per /convert handler: what it last sent
    failed_at,       \* when get_exchange_rates last fell back after a failed fetch
    afkStatuses,     \* table of AFKStatus rows, in insertion order
    afkReply,        \* what /afk last sent
    listener         \* per AFK.on_message in progress: where it is, and what it sent

cfgVars == <<guild_cache, user_cache, guildRows, userRows, toggleDefault, ret, lastWrite>>

textVars == <<config, content, detect>>

spamVars == <<spam_cache, now, userTable, spamStats, emoji_stats, emoji_file, seen, written, last, sends>>

callVars == <<callSessions, voice>>

currencyVars == <<rates, last_update, task, reply, failed_at>>

afkVars == <<afkStatuses, afkReply, listener>>

otherVars == <<callVars, currencyVars, afkVars>>

vars == <<cfgVars, textVars, spamVars, otherVars>>

----------------------------------------------------------------------------
(* Domains *)

GuildIds == {1}
UserIds == {1, 2}

ToggleKeys == {"emoji_tracking_enabled", "spam_detection_enabled", "call_tracking_enabled"}

\* keys that fall to the JSON settings blob; "spam_tracking_enabled" is the key
\* config_enable builds for the feature "spam"
BlobKeys == {"spam_tracking_enabled"}

ConfigKeys == ToggleKeys \cup BlobKeys

PyBools == {"True", "False"}

\* values handed to update_guild_config for a blob key: a boolean, a tuple, and
\* a set (which json cannot serialise)
PyValues == {"True", "(1, 2)", "{1}"}

----------------------------------------------------------------------------
(* Python dict helpers *)

DictSet(d, k, v) == [x \in (DOMAIN d) \cup {k} |-> IF x = k THEN v ELSE d[x]]

DictDel(d, k) == [x \in (DOMAIN d) \ {k} |-> d[x]]

EmptyDict == [x \in {} |-> "None"]

----------------------------------------------------------------------------
(* json.dumps / json.loads on the values above *)

JsonSerializable(v) == v \in {"True", "False", "(1, 2)", "[1, 2]"}

JsonDumpsValue(v) ==
    CASE v = "True" -> "true"
      [] v = "False" -> "false"
      [] v = "(1, 2)" -> "[1, 2]"
      [] v = "[1, 2]" -> "[1, 2]"

JsonLoadsValue(t) ==
    CASE t = "true" -> "True"
      [] t = "false" -> "False"
      [] t = "[1, 2]" -> "[1, 2]"

\* the text of a JSON object is kept as key -> member text; the empty function
\* is the empty (falsy) settings_json column
JsonDumps(d) == [k \in DOMAIN d |-> JsonDumpsValue(d[k])]

JsonLoads(t) == [k \in DOMAIN t |-> JsonLoadsValue(t[k])]

\* json.loads(settings.settings_json) if settings.settings_json else {}
SettingsOf(row) == IF DOMAIN row.settings_json = {} THEN EmptyDict ELSE JsonLoads(row.settings_json)

----------------------------------------------------------------------------
(* Message text.  A str is a sequence of characters; the characters used: *)
(* lower and upper case letters, a digit, the space, the line feed, and    *)
(* U+2167 ROMAN NUMERAL EIGHT, for which str.isupper() is True and         *)
(* str.isalpha() is False.                                                 *)

LF == "\n"

RomanEight == "U+2167"

SmallRomanEight == "U+2177"

\* str.isupper() of one character
IsUpper(c) == c \in {"A", "B", RomanEight}

\* str.isalpha() of one character
IsAlpha(c) == c \in {"a", "b", "A", "B"}

\* the lower-case form re.IGNORECASE compares
Lower(c) ==
    CASE c = "A" -> "a"
      [] c = "B" -> "b"
      [] c = RomanEight -> SmallRomanEight
      [] OTHER -> c

\* c * n
Rep(c, n) == [i \in 1..n |-> c]

\* sum(1 for c in s if P(c))
CountIf(P(_), s) == Cardinality({i \in 1..Len(s) : P(s[i])})

\* all strings over alphabet of length at most n
Strings(alphabet, n) == UNION {[1..k -> alphabet] : k \in 0..n}

\* the thresholds of config.py that the detectors read
Thresholds(charRep, capsRatio, window, count) ==
    [SPAM_CHAR_REPETITION_THRESHOLD |-> charRep,
     SPAM_CAPS_RATIO_THRESHOLD |-> capsRatio,
     SPAM_REPEATED_MSG_WINDOW |-> window,
     SPAM_REPEATED_MSG_COUNT |-> count]

\* a ratio threshold is kept as the fraction num/den
Ratio(n, d) == [num |-> n, den |-> d]

SomeThresholds == Thresholds(3, Ratio(7, 10), 2, 2)

NoDetector ==
    /\ content = << >>
    /\ detect = [fn |-> "none", result |-> FALSE]

----------------------------------------------------------------------------
(* Statistics._detect_char_repetition *)

\* '.' of a pattern compiled without re.DOTALL
DotMatches(c) == c # LF

\* re.search(r'(.)\1{threshold-1,}', content, re.IGNORECASE)
DetectCharRepetition(s, threshold) ==
    \E i \in 1..Len(s) :
        /\ DotMatches(s[i])
        /\ i + (threshold - 1) <= Len(s)
        /\ \A j \in (i + 1)..(i + threshold - 1) : Lower(s[j]) = Lower(s[i])

----------------------------------------------------------------------------
(* Statistics._detect_caps_spam *)

CapsMinLength == 10

\* content.replace(" ", "")
StripSpaces(s) == SelectSeq(s, LAMBDA c : c # " ")

\* the length test measures the text without its spaces
TooShortForCapsStripped(s) == Len(StripSpaces(s)) <= CapsMinLength

\* if len(content) <= 10: return False
TooShortForCaps(s) == Len(s) <= CapsMinLength

\* a strict comparison
RatioAbove(capitals, letters, threshold) == capitals * threshold.den > threshold.num * letters

\* (capitals / letters) >= threshold
RatioAtLeast(capitals, letters, threshold) == capitals * threshold.den >= threshold.num * letters

DetectCapsSpam(s, threshold) ==
    IF TooShortForCaps(s) THEN FALSE
    ELSE LET text_no_space == StripSpaces(s)
             capitals == CountIf(IsUpper, text_no_space)
             letters == CountIf(IsAlpha, text_no_space)
         IN IF text_no_space = << >> THEN FALSE
            ELSE IF letters = 0 THEN FALSE
            ELSE RatioAtLeast(capitals, letters, threshold)

----------------------------------------------------------------------------
(* The inputs the detectors are applied to *)

MaxRepLen == 5
MaxCharThreshold == 3
MaxCapsLen == 12

RepAlphabet == {"a", "A", "b", LF}

\* upper case letters, spaces, lower case letters, digits and roman numerals,
\* in this order or reversed
Blocks(u, s, l, d, r, rev) ==
    LET fwd == Rep("A", u) \o Rep(" ", s) \o Rep("b", l) \o Rep("1", d) \o Rep(RomanEight, r)
    IN IF rev THEN [i \in 1..Len(fwd) |-> fwd[Len(fwd) + 1 - i]] ELSE fwd

CapsMessages ==
    {Blocks(u, s, l, d, r, rev) :
        <<u, s, l, d, r, rev>> \in
            {t \in (0..MaxCapsLen) \X (0..MaxCapsLen) \X (0..MaxCapsLen) \X (0..2) \X (0..2) \X BOOLEAN :
                t[1] + t[2] + t[3] + t[4] + t[5] <= MaxCapsLen}}

CapsRatios == {Ratio(1, 2), Ratio(7, 10), Ratio(1, 1)}


----------------------------------------------------------------------------
(* The stored rows *)

DefaultGuildRow ==
    [emoji_tracking_enabled |-> toggleDefault,
     spam_detection_enabled |-> toggleDefault,
     call_tracking_enabled |-> toggleDefault,
     settings_json |-> EmptyDict]

DefaultUserRow == [opt_out |-> "False", settings_json |-> EmptyDict]

\* Model.get_or_create(key=...): the table after the call (a row with the
\* column defaults is inserted when none is there)
GetOrCreate(rows, key, default) == IF key \in DOMAIN rows THEN rows ELSE DictSet(rows, key, default)

----------------------------------------------------------------------------
(* ConfigManager *)

GuildConfigOfRow(row) ==
    [emoji_tracking_enabled |-> row.emoji_tracking_enabled,
     spam_detection_enabled |-> row.spam_detection_enabled,
     call_tracking_enabled |-> row.call_tracking_enabled,
     settings |-> SettingsOf(row)]

\* the fallback answers "enabled"
GuildFallbackEnabled ==
    [emoji_tracking_enabled |-> "True",
     spam_detection_enabled |-> "True",
     call_tracking_enabled |-> "True",
     settings |-> EmptyDict]

GuildFallback ==
    [emoji_tracking_enabled |-> "False",
     spam_detection_enabled |-> "False",
     call_tracking_enabled |-> "False",
     settings |-> EmptyDict]

UserConfigOfRow(row) == [opt_out |-> row.opt_out, settings |-> SettingsOf(row)]

UserFallback == [opt_out |-> "False", settings |-> EmptyDict]

\* the exceptions a storage call or json.dumps raises, and the ones the
\* handlers' `except Exception` clauses catch
Raised == {"OperationalError", "TypeError"}

ExceptCatches(exc) == exc \in Raised

\* a copy-paste slip: the spam_detection branch assigns the emoji column
GuildRowAssignWrongColumn(row, key, value) ==
    IF key = "spam_detection_enabled"
    THEN [row EXCEPT !.emoji_tracking_enabled = value]
    ELSE IF key \in ToggleKeys
    THEN [row EXCEPT ![key] = value]
    ELSE [row EXCEPT !.settings_json = JsonDumps(DictSet(SettingsOf(row), key, value))]

\* the row update_guild_config writes: settings.<key> = value, or the blob
GuildRowAssign(row, key, value) ==
    IF key \in ToggleKeys
    THEN [row EXCEPT ![key] = value]
    ELSE [row EXCEPT !.settings_json = JsonDumps(DictSet(SettingsOf(row), key, value))]

\* the cache entry is kept on a write
InvalidateKeeps(cache, key) == cache

\* if guild_id in self.guild_cache: del self.guild_cache[guild_id]
Invalidate(cache, key) == IF key \in DOMAIN cache THEN DictDel(cache, key) ELSE cache

\* get_guild_config(g): what it returns and the cache and table it leaves;
\* dbFails: GuildSettings.get_or_create raises
GuildConfigRead(cache, table, g, dbFails) ==
    IF g \in DOMAIN cache
    THEN [source |-> "cache", value |-> cache[g], raised |-> FALSE,
          cache |-> cache, rows |-> table]
    ELSE IF dbFails
    THEN [source |-> "fallback", value |-> GuildFallback,
          raised |-> ~ExceptCatches("OperationalError"),
          cache |-> cache, rows |-> table]
    ELSE LET rows == GetOrCreate(table, g, DefaultGuildRow)
             cfg == GuildConfigOfRow(rows[g])
         IN [source |-> "store", value |-> cfg, raised |-> FALSE,
             cache |-> DictSet(cache, g, cfg), rows |-> rows]

GetGuildConfig(g, dbFails) ==
    LET r == GuildConfigRead(guild_cache, guildRows, g, dbFails)
    IN /\ guild_cache' = r.cache
       /\ guildRows' = r.rows
       /\ ret' = [op |-> "get_guild_config", key |-> g, source |-> r.source,
                  raised |-> r.raised, value |-> r.value]
       /\ UNCHANGED <<user_cache, userRows, toggleDefault, lastWrite, textVars, spamVars, otherVars>>

\* update_guild_config(g, key, value); failAt: the storage call that raises
UpdateGuildConfig(g, key, value, failAt) ==
    /\ IF failAt = "get_or_create"
       THEN /\ ret' = [op |-> "update_guild_config", key |-> g, k |-> key, v |-> value,
                       raised |-> ~ExceptCatches("OperationalError"), value |-> "False",
                       storageFailed |-> TRUE]
            /\ UNCHANGED <<guild_cache, guildRows, lastWrite>>
       ELSE LET rows == GetOrCreate(guildRows, g, DefaultGuildRow)
            IN IF key \notin ToggleKeys /\ ~JsonSerializable(value)
               THEN /\ guildRows' = rows
                    /\ ret' = [op |-> "update_guild_config", key |-> g, k |-> key, v |-> value,
                               raised |-> ~ExceptCatches("TypeError"), value |-> "False",
                               storageFailed |-> FALSE]
                    /\ UNCHANGED <<guild_cache, lastWrite>>
               ELSE IF failAt = "save"
               THEN /\ guildRows' = rows
                    /\ ret' = [op |-> "update_guild_config", key |-> g, k |-> key, v |-> value,
                               raised |-> ~ExceptCatches("OperationalError"), value |-> "False",
                               storageFailed |-> TRUE]
                    /\ UNCHANGED <<guild_cache, lastWrite>>
               ELSE /\ guildRows' = [rows EXCEPT ![g] = GuildRowAssign(rows[g], key, value)]
                    /\ guild_cache' = Invalidate(guild_cache, g)
                    /\ lastWrite' = [lastWrite EXCEPT ![g] = DictSet(lastWrite[g], key, value)]
                    /\ ret' = [op |-> "update_guild_config", key |-> g, k |-> key, v |-> value,
                               raised |-> FALSE, value |-> "True", storageFailed |-> FALSE]
    /\ UNCHANGED <<user_cache, userRows, toggleDefault, textVars, spamVars, otherVars>>

\* get_user_config(u) over a cache and a table: where the result came from,
\* the result, and the cache and table the call leaves
UserConfigRead(cache, table, u, dbFails) ==
    IF u \in DOMAIN cache
    THEN [source |-> "cache", value |-> cache[u], raised |-> FALSE,
          cache |-> cache, rows |-> table]
    ELSE IF dbFails
    THEN [source |-> "fallback", value |-> UserFallback,
          raised |-> ~ExceptCatches("OperationalError"),
          cache |-> cache, rows |-> table]
    ELSE LET rows == GetOrCreate(table, u, DefaultUserRow)
             cfg == UserConfigOfRow(rows[u])
         IN [source |-> "store", value |-> cfg, raised |-> FALSE,
             cache |-> DictSet(cache, u, cfg), rows |-> rows]

\* get_user_config(u)
GetUserConfig(u, dbFails) ==
    LET r == UserConfigRead(user_cache, userRows, u, dbFails)
    IN /\ user_cache' = r.cache
       /\ userRows' = r.rows
       /\ ret' = [op |-> "get_user_config", key |-> u, source |-> r.source,
                  raised |-> r.raised, value |-> r.value]
       /\ UNCHANGED <<guild_cache, guildRows, toggleDefault, lastWrite, textVars, spamVars, otherVars>>

\* set_user_opt_out(u, opt_out)
SetUserOptOut(u, opt_out, failAt) ==
    /\ IF failAt = "get_or_create"
       THEN /\ ret' = [op |-> "set_user_opt_out", key |-> u, k |-> "opt_out", v |-> opt_out,
                       raised |-> ~ExceptCatches("OperationalError"), value |-> "False",
                       storageFailed |-> TRUE]
            /\ UNCHANGED <<user_cache, userRows>>
       ELSE LET rows == GetOrCreate(userRows, u, DefaultUserRow)
            IN IF failAt = "save"
               THEN /\ userRows' = rows
                    /\ ret' = [op |-> "set_user_opt_out", key |-> u, k |-> "opt_out", v |-> opt_out,
                               raised |-> ~ExceptCatches("OperationalError"), value |-> "False",
                               storageFailed |-> TRUE]
                    /\ UNCHANGED user_cache
               ELSE /\ userRows' = [rows EXCEPT ![u].opt_out = opt_out]
                    /\ user_cache' = Invalidate(user_cache, u)
                    /\ ret' = [op |-> "set_user_opt_out", key |-> u, k |-> "opt_out", v |-> opt_out,
                               raised |-> FALSE, value |-> "True", storageFailed |-> FALSE]
    /\ UNCHANGED <<guild_cache, guildRows, toggleDefault, lastWrite, textVars, spamVars, otherVars>>

FailPoints == {"none", "get_or_create", "save"}

\* the values a caller passes for a key: booleans for the three toggle columns
ValuesFor(key) == IF key \in ToggleKeys THEN PyBools ELSE PyValues

\* ConfigManager.__init__
FreshConfigManager ==
    /\ guild_cache = EmptyDict
    /\ user_cache = EmptyDict
    /\ userRows = EmptyDict
    /\ ret = [op |-> "init", key |-> 0, raised |-> FALSE]
    /\ lastWrite = [g \in GuildIds |-> EmptyDict]

\* Statistics.__init__ over an empty database
FreshStatistics ==
    /\ spam_cache = EmptyDict
    /\ now = 0
    /\ userTable = EmptyDict
    /\ spamStats = EmptyDict
    /\ emoji_stats = EmptyDict
    /\ emoji_file = [writes |-> 0, data |-> EmptyDict]
    /\ seen = [u \in UserIds |-> << >>]
    /\ written = EmptyDict
    /\ last = [ran |-> FALSE]
    /\ sends = 0

\* before.channel / after.channel is None
NoChannel == 0

\* an empty call_sessions table, nobody in a voice channel
FreshCalls ==
    /\ callSessions = << >>
    /\ voice = [u \in UserIds |-> NoChannel]

\* self.last_update = None
NoUpdate == -1

\* the /convert invocations that can be in progress together
Handlers == {1, 2}

\* a handler that is not running
Idle == [pc |-> "idle"]

\* a handler that has sent nothing
NoReply == [kind |-> "none"]

\* CurrencyConverter.__init__
FreshCurrency ==
    /\ rates = EmptyDict
    /\ last_update = NoUpdate
    /\ task = [h \in Handlers |-> Idle]
    /\ reply = [h \in Handlers |-> NoReply]
    /\ failed_at = NoUpdate

\* the AFK.on_message listeners that can be in progress together
Listeners == {1}

\* an empty afk_status table, nothing sent
FreshAfk ==
    /\ afkStatuses = << >>
    /\ afkReply = [kind |-> "none"]
    /\ listener = [l \in Listeners |-> [pc |-> "idle"]]

\* the state of everything else at start
FreshOthers == FreshCalls /\ FreshCurrency /\ FreshAfk

InitConfig ==
    /\ FreshConfigManager
    /\ guildRows = EmptyDict
    /\ FreshStatistics
    /\ FreshOthers
    /\ toggleDefault \in PyBools
    /\ config = SomeThresholds
    /\ NoDetector

NextConfig ==
    \/ \E g \in GuildIds, dbFails \in BOOLEAN : GetGuildConfig(g, dbFails)
    \/ \E g \in GuildIds, key \in ConfigKeys, failAt \in FailPoints :
          \E value \in ValuesFor(key) : UpdateGuildConfig(g, key, value, failAt)
    \/ \E u \in {1}, dbFails \in BOOLEAN : GetUserConfig(u, dbFails)
    \/ \E u \in {1}, opt_out \in PyBools, failAt \in FailPoints : SetUserOptOut(u, opt_out, failAt)

SpecConfig == InitConfig /\ [][NextConfig]_vars

----------------------------------------------------------------------------
(* Statistics: the spam pipeline *)

\* hashlib.md5(content.encode()).hexdigest() of the messages sent
Md5(c) ==
    CASE c = <<"a", "b">> -> "187ef4436122d1cc2f40dc2b92f0eba0"
      [] c = <<"b", "a">> -> "07159c47ee1b19ae4fb9c40d480856c4"
      [] c = <<"a", "a", "a">> -> "47bce5c74f589f4867dbd57e9ca9f808"
      [] c = <<"A", "B", "A", "B", "A", "B", "A", "B", "A", "B", "A">> -> "173a75237451bab2c7b998ac7ed9c435"
      [] c = <<"A", "A", "A", "A", "A", "A", "A", "A", "A", "A", "A">> -> "aae9ed2aebd46960a986cfb376bc1eca"

\* an entry of age equal to the window is kept
KeepInWindowInclusive(age, window) == age <= window

\* if now - t < window
KeepInWindow(age, window) == age < window

\* a strict comparison
CountReachedStrict(count, threshold) == count > threshold

\* count >= config.SPAM_REPEATED_MSG_COUNT
CountReached(count, threshold) == count >= threshold

\* the entries of a user's window that are kept at time t
Pruned(window, t) ==
    SelectSeq(window, LAMBDA e : KeepInWindow(t - e.t, config.SPAM_REPEATED_MSG_WINDOW))

\* the message's own entry is appended before the count is taken
DetectRepeatedMessageAppendFirst(cache, u, c, t) ==
    LET msg_hash == Md5(c)
        window == IF u \in DOMAIN cache THEN cache[u] ELSE << >>
        kept == Append(Pruned(window, t), [h |-> msg_hash, t |-> t])
        count == Cardinality({i \in 1..Len(kept) : kept[i].h = msg_hash})
    IN [result |-> CountReached(count, config.SPAM_REPEATED_MSG_COUNT),
        cache |-> DictSet(cache, u, kept)]

\* _detect_repeated_message(user_id, content) at time t: what it returns and
\* the window it leaves for the user
DetectRepeatedMessage(cache, u, c, t) ==
    LET msg_hash == Md5(c)
        window == IF u \in DOMAIN cache THEN cache[u] ELSE << >>
        kept == Pruned(window, t)
        count == Cardinality({i \in 1..Len(kept) : kept[i].h = msg_hash})
    IN [result |-> CountReached(count, config.SPAM_REPEATED_MSG_COUNT),
        cache |-> DictSet(cache, u, Append(kept, [h |-> msg_hash, t |-> t]))]

\* the caps rule is tried first
EarlyRuleCapsFirst(c) ==
    IF DetectCapsSpam(c, config.SPAM_CAPS_RATIO_THRESHOLD) THEN "caps_spam"
    ELSE IF DetectCharRepetition(c, config.SPAM_CHAR_REPETITION_THRESHOLD) THEN "char_repetition"
    ELSE ""

\* rules 1 and 2 of _process_spam_detection: the spam_type they set, or ""
EarlyRule(c) ==
    IF DetectCharRepetition(c, config.SPAM_CHAR_REPETITION_THRESHOLD) THEN "char_repetition"
    ELSE IF DetectCapsSpam(c, config.SPAM_CAPS_RATIO_THRESHOLD) THEN "caps_spam"
    ELSE ""

DefaultUserRowOf(name) == [discord_name |-> name]

\* a row created with count 1
NewSpamStatsRowCounted == [count |-> 1, last_triggered |-> -1]

\* SpamStats.get_or_create(..., defaults={'count': 0})
NewSpamStatsRow == [count |-> 0, last_triggered |-> -1]

\* _record_spam(user_id, spam_type) at time t; failAt: the storage call that
\* raises.  The tables it leaves, and whether the row was saved.
RecordSpam(users, stats, u, spam_type, t, failAt) ==
    IF failAt = "user"
    THEN [users |-> users, stats |-> stats, saved |-> FALSE]
    ELSE LET users1 == GetOrCreate(users, u, DefaultUserRowOf("Unknown"))
         IN IF failAt = "stats"
            THEN [users |-> users1, stats |-> stats, saved |-> FALSE]
            ELSE LET key == <<u, spam_type>>
                     stats1 == GetOrCreate(stats, key, NewSpamStatsRow)
                 IN IF failAt = "save"
                    THEN [users |-> users1, stats |-> stats1, saved |-> FALSE]
                    ELSE [users |-> users1,
                          stats |-> [stats1 EXCEPT ![key] = [count |-> stats1[key].count + 1,
                                                             last_triggered |-> t]],
                          saved |-> TRUE]

RecordFailPoints == {"none", "user", "stats", "save"}

\* the truth value of a Python bool
Truthy(v) == v = "True"

\* a gate that is always open
FeatureEnabledAlways(cfg, feature) == TRUE

\* config.get(f"{feature}_enabled", False)
FeatureEnabled(cfg, feature) ==
    LET key == feature \o "_enabled"
    IN IF key \in DOMAIN cfg THEN Truthy(cfg[key]) ELSE FALSE

\* message.guild is None
NoGuild == 0

MaxTime == 2

\* is_feature_enabled(g, feature) over a cache and a table: the answer, and the
\* cache and table the read leaves
IsFeatureEnabled(cache, table, g, feature, dbFails) ==
    LET r == GuildConfigRead(cache, table, g, dbFails)
    IN [value |-> FeatureEnabled(r.value, feature), cache |-> r.cache, rows |-> r.rows]

\* the entry _process_emoji_tracking creates for a user who has none
NewEmojiEntry(t) ==
    [unicode_emojis |-> EmptyDict, text_emoticons |-> EmptyDict,
     custom_emojis |-> EmptyDict, total_emojis |-> 0, last_updated |-> t]

\* the characters of the messages that the emoji package lists: U+1F600
\* GRINNING FACE
UnicodeEmoji == {"U+1F600"}

\* [item['emoji'] for item in emoji.emoji_list(content)]
EmojiList(c) == SelectSeq(c, LAMBDA ch : ch \in UnicodeEmoji)

\* each pattern as the texts it matches, in the order the regex tries them,
\* and the key it is counted under
EMOTICON_PATTERNS ==
    << [alts |-> <<<<":", "-", ")">>, <<":", ")">>>>, normalized |-> ":)"],
       [alts |-> <<<<":", "-", "D">>, <<":", "D">>>>, normalized |-> ":D"],
       [alts |-> <<<<"=", ")">>>>, normalized |-> "=)"],
       [alts |-> <<<<"=", "D">>>>, normalized |-> "=D"],
       [alts |-> <<<<":", "3">>>>, normalized |-> ":3"],
       [alts |-> <<<<"^", "_", "^">>>>, normalized |-> "^_^"],
       [alts |-> <<<<"^", "-", "^">>>>, normalized |-> "^-^"],
       [alts |-> <<<<"^", "^">>>>, normalized |-> "^^"],
       [alts |-> <<<<":", ">">>>>, normalized |-> ":>"],
       [alts |-> <<<<"c", ":">>>>, normalized |-> "c:"],
       [alts |-> <<<<":", "-", "(">>, <<":", "(">>>>, normalized |-> ":("],
       [alts |-> <<<<":", "'", "(">>, <<":", "(">>>>, normalized |-> ":("],
       [alts |-> <<<<"=", "(">>>>, normalized |-> "=("],
       [alts |-> <<<<")", ":">>>>, normalized |-> "):"],
       [alts |-> <<<<";", "-", ")">>, <<";", ")">>>>, normalized |-> ";)"],
       [alts |-> <<<<";", "-", "D">>, <<";", "D">>>>, normalized |-> ";D"],
       [alts |-> <<<<":", "O">>>>, normalized |-> ":O"],
       [alts |-> <<<<":", "o">>>>, normalized |-> ":o"],
       [alts |-> <<<<"o", "_", "O">>>>, normalized |-> "o_O"],
       [alts |-> <<<<"O", "_", "o">>>>, normalized |-> "O_o"],
       [alts |-> <<<<"<", "3">>>>, normalized |-> "<3"],
       [alts |-> <<<<":", "-", "|">>, <<":", "|">>>>, normalized |-> ":|"],
       [alts |-> <<<<"=", "|">>>>, normalized |-> "=|"],
       [alts |-> <<<<":", "-", "/">>, <<":", "/">>>>, normalized |-> ":/"],
       [alts |-> <<<<":", "-", "\\">>, <<":", "\\">>>>, normalized |-> ":\\"],
       [alts |-> <<<<"-", "_", "-">>>>, normalized |-> "-_-"],
       [alts |-> <<<<">", ":", "-", "(">>, <<">", ":", "(">>>>, normalized |-> ">:("],
       [alts |-> <<<<">", ":", "-", ")">>, <<">", ":", ")">>>>, normalized |-> ">:)"],
       [alts |-> <<<<"X", "D">>, <<"x", "D">>>>, normalized |-> "XD"],
       [alts |-> <<<<"u", "w", "u">>>>, normalized |-> "uwu"],
       [alts |-> <<<<"o", "w", "o">>>>, normalized |-> "owo"],
       [alts |-> <<<<">", "w", "<">>>>, normalized |-> ">w<"] >>

\* whether the text lit stands in c at position i
StandsAt(lit, c, i) == i + Len(lit) - 1 <= Len(c) /\ SubSeq(c, i, i + Len(lit) - 1) = lit

\* the length of the match of a pattern at position i of c, 0 when it does
\* not match there
MatchLen(alts, c, i) ==
    LET standing == {k \in 1..Len(alts) : StandsAt(alts[k], c, i)}
    IN IF standing = {} THEN 0
       ELSE Len(alts[CHOOSE k \in standing : \A j \in standing : k <= j])

\* len(re.findall(pattern, content)), counted from position i on: matches
\* are taken from left to right and do not overlap
RECURSIVE Findall(_, _, _)
Findall(alts, c, i) ==
    IF i > Len(c) THEN 0
    ELSE LET n == MatchLen(alts, c, i)
         IN IF n > 0 THEN 1 + Findall(alts, c, i + n) ELSE Findall(alts, c, i + 1)

\* the characters \w matches, among those of the messages
WordChars == {"a", "b", "A", "B", "D", "_", "1", "3"}

\* the characters \d matches, among those of the messages
DecimalChars == {"1", "3"}

\* the position after the longest run of characters of the set from i on
RECURSIVE RunEnd(_, _, _)
RunEnd(chars, c, i) == IF i <= Len(c) /\ c[i] \in chars THEN RunEnd(chars, c, i + 1) ELSE i

\* the match of <a?:(\w+):(\d+)> at position i of c: its length (0 when it
\* does not match there) and the name
CustomAt(c, i) ==
    LET start == IF StandsAt(<<"<", "a", ":">>, c, i) THEN i + 3
                 ELSE IF StandsAt(<<"<", ":">>, c, i) THEN i + 2
                 ELSE 0
        nameEnd == RunEnd(WordChars, c, start)
        idEnd == RunEnd(DecimalChars, c, nameEnd + 1)
    IN IF /\ start > 0
          /\ nameEnd > start /\ nameEnd <= Len(c) /\ c[nameEnd] = ":"
          /\ idEnd > nameEnd + 1 /\ idEnd <= Len(c) /\ c[idEnd] = ">"
       THEN [len |-> idEnd - i + 1, name |-> SubSeq(c, start, nameEnd - 1)]
       ELSE [len |-> 0, name |-> << >>]

\* [name for name, _ in re.findall(r'<a?:(\w+):(\d+)>', content)], from
\* position i on
RECURSIVE CustomEmojis(_, _)
CustomEmojis(c, i) ==
    IF i > Len(c) THEN << >>
    ELSE LET m == CustomAt(c, i)
         IN IF m.len > 0 THEN <<m.name>> \o CustomEmojis(c, i + m.len) ELSE CustomEmojis(c, i + 1)

\* d.get(key, 0) + n under key
Counted(d, key, n) == DictSet(d, key, (IF key \in DOMAIN d THEN d[key] ELSE 0) + n)

\* the count is kept and the total is not
CountUpForgettingTotal(stats, kind, key, n) == [stats EXCEPT ![kind] = Counted(@, key, n)]

\* stats[kind][key] = stats[kind].get(key, 0) + n; stats["total_emojis"] += n
CountUp(stats, kind, key, n) ==
    [stats EXCEPT ![kind] = Counted(@, key, n), !.total_emojis = @ + n]

\* the loop over the emoji, or over the names of the custom emoji, found
RECURSIVE CountEach(_, _, _)
CountEach(stats, kind, keys) ==
    IF keys = << >> THEN stats
    ELSE CountEach(CountUp(stats, kind, Head(keys), 1), kind, Tail(keys))

\* len(re.findall(pattern, content)): a pattern none of whose texts begins
\* with a character of the content has no match in it
Matches(alts, c, chars) ==
    IF \A k \in 1..Len(alts) : alts[k][1] \notin chars THEN 0 ELSE Findall(alts, c, 1)

\* one turn of the loop over EMOTICON_PATTERNS: `if matches:` and the count
\* of len(matches) under the normalized key
CountMatches(stats, key, n) ==
    IF n > 0 THEN CountUp(stats, "text_emoticons", key, n) ELSE stats

\* the loop over EMOTICON_PATTERNS, from pattern k on; chars are the
\* characters of c
RECURSIVE CountEmoticons(_, _, _, _)
CountEmoticons(stats, c, chars, k) ==
    IF k > Len(EMOTICON_PATTERNS) THEN stats
    ELSE CountEmoticons(CountMatches(stats, EMOTICON_PATTERNS[k].normalized,
                                     Matches(EMOTICON_PATTERNS[k].alts, c, chars)),
                        c, chars, k + 1)

\* found_any at the end of _process_emoji_tracking: it is set in the body of
\* each of the three loops, next to the count, so it holds exactly when the
\* loops changed the entry they started from
FoundAny(before, after) == after # before

\* the end of _process_emoji_tracking: last_updated is set when found_any
Tracked(stats, u, t, entry, counted) ==
    [stats |-> DictSet(stats, u, IF FoundAny(entry, counted)
                                 THEN [counted EXCEPT !.last_updated = t] ELSE counted),
     found_any |-> FoundAny(entry, counted)]

\* _process_emoji_tracking(message) of user u with content c at time t: the
\* statistics it leaves, and found_any
ProcessEmojiTracking(stats, u, c, t) ==
    LET entry == IF u \in DOMAIN stats THEN stats[u] ELSE NewEmojiEntry(t)
        chars == {c[i] : i \in 1..Len(c)}
        unicode == CountEach(entry, "unicode_emojis", EmojiList(c))
        text == CountEmoticons(unicode, c, chars, 1)
        custom == IF "<" \in chars THEN CountEach(text, "custom_emojis", CustomEmojis(c, 1)) ELSE text
    IN Tracked(stats, u, t, entry, custom)

\* _save_emoji_stats(): json.dump of emoji_stats over the file
SaveEmojiStats(file, stats) == [writes |-> file.writes + 1, data |-> stats]

\* every message goes through the repeated-message rule
WindowsAfterRulesAlways(early, windows, third) == third.cache

\* the windows _process_spam_detection leaves: _detect_repeated_message is
\* called, and touches the window, only when rules 1 and 2 did not match
WindowsAfterRules(early, windows, third) == IF early # "" THEN windows ELSE third.cache

\* _process_spam_detection(message) for a message of user u in guild g (or in
\* no guild) with content c at time t: what it leaves, and what it made of
\* the message
ProcessSpamDetection(cache, table, windows, users, stats, u, g, c, t, dbFails, recFail) ==
    LET same == [guild_cache |-> cache, guildRows |-> table, spam_cache |-> windows,
                 userTable |-> users, spamStats |-> stats,
                 ran |-> FALSE, third |-> FALSE, spam_type |-> "", saved |-> FALSE]
    IN IF g = NoGuild
       THEN same
       ELSE LET r == IsFeatureEnabled(cache, table, g, "spam_detection", dbFails)
            IN IF ~r.value
               THEN [same EXCEPT !.guild_cache = r.cache, !.guildRows = r.rows]
               ELSE LET early == EarlyRule(c)
                        third == DetectRepeatedMessage(windows, u, c, t)
                        spam_type == IF early # "" THEN early
                                     ELSE IF third.result THEN "repeated_messages"
                                     ELSE ""
                        rec == RecordSpam(users, stats, u, spam_type, t, recFail)
                    IN [guild_cache |-> r.cache, guildRows |-> r.rows,
                        spam_cache |-> WindowsAfterRules(early, windows, third),
                        userTable |-> IF spam_type # "" THEN rec.users ELSE users,
                        spamStats |-> IF spam_type # "" THEN rec.stats ELSE stats,
                        ran |-> TRUE, third |-> (early = ""), spam_type |-> spam_type,
                        saved |-> (spam_type # "" /\ rec.saved)]

\* emoji_stats and the file after _process_emoji_tracking, which saves the
\* statistics when found_any
EmojiTracked(e) ==
    /\ emoji_stats' = e.stats
    /\ emoji_file' = IF e.found_any THEN SaveEmojiStats(emoji_file, emoji_stats') ELSE emoji_file

\* what `last` holds after a message that spam detection did not run on
Dropped == [ran |-> FALSE]

\* on_message(message): author.bot, author u, guild g (or none), content c
OnMessage(bot, u, g, c, dbFails, userFails, recFail) ==
    /\ sends' = sends + 1
    /\ IF bot
       THEN /\ last' = Dropped
            /\ UNCHANGED <<guild_cache, guildRows, user_cache, userRows, emoji_stats, emoji_file,
                           spam_cache, userTable, spamStats, seen, written>>
       ELSE LET tracking == IF g = NoGuild
                            THEN [value |-> TRUE, cache |-> guild_cache, rows |-> guildRows]
                            ELSE IsFeatureEnabled(guild_cache, guildRows, g, "emoji_tracking", dbFails)
            IN /\ IF ~tracking.value
                  THEN /\ guild_cache' = tracking.cache
                       /\ guildRows' = tracking.rows
                       /\ last' = Dropped
                       /\ UNCHANGED <<user_cache, userRows, emoji_stats, emoji_file,
                                      spam_cache, userTable, spamStats, seen, written>>
                  ELSE LET user_config == UserConfigRead(user_cache, userRows, u, userFails)
                       IN /\ user_cache' = user_config.cache
                          /\ userRows' = user_config.rows
                          /\ IF Truthy(user_config.value.opt_out)
                             THEN /\ guild_cache' = tracking.cache
                                  /\ guildRows' = tracking.rows
                                  /\ last' = Dropped
                                  /\ UNCHANGED <<emoji_stats, emoji_file, spam_cache, userTable, spamStats, seen, written>>
                             ELSE LET d == ProcessSpamDetection(tracking.cache, tracking.rows,
                                              spam_cache, userTable, spamStats,
                                              u, g, c, now, dbFails, recFail)
                                  IN /\ EmojiTracked(ProcessEmojiTracking(emoji_stats, u, c, now))
                                     /\ guild_cache' = d.guild_cache
                                     /\ guildRows' = d.guildRows
                                     /\ spam_cache' = d.spam_cache
                                     /\ userTable' = d.userTable
                                     /\ spamStats' = d.spamStats
                                     /\ seen' = IF d.ran /\ d.third
                                                THEN [seen EXCEPT ![u] = Append(@, [h |-> Md5(c), t |-> now])]
                                                ELSE seen
                                     /\ written' = IF d.saved
                                                   THEN DictSet(written, <<u, d.spam_type>>,
                                                                IF <<u, d.spam_type>> \in DOMAIN written
                                                                THEN written[<<u, d.spam_type>>] + 1 ELSE 1)
                                                   ELSE written
                                     /\ last' = IF d.ran
                                                THEN [ran |-> TRUE, user |-> u, guild |-> g, content |-> c,
                                                      t |-> now, third |-> d.third,
                                                      spam_type |-> d.spam_type, saved |-> d.saved]
                                                ELSE Dropped
    /\ UNCHANGED <<toggleDefault, lastWrite, ret, textVars, now, otherVars>>

\* a second passes
Tick ==
    /\ now < MaxTime
    /\ now' = now + 1
    /\ UNCHANGED <<cfgVars, textVars, spam_cache, userTable, spamStats, emoji_stats, emoji_file, seen, written, last, sends, otherVars>>

\* the messages sent: two that match no text rule, one with a run of three,
\* one in capitals without a run, one in capitals that is one run
Plain == {<<"a", "b">>, <<"b", "a">>}

SpamMessages == Plain \cup {Rep("a", 3), [i \in 1..11 |-> IF i % 2 = 1 THEN "A" ELSE "B"], Rep("A", 11)}

MaxWindow == 2
MaxSends == 2
MaxBurst == 6
MaxRepeatCount == 5

\* a stored row of the guild with emoji tracking and spam detection switched
\* on or off
GuildRowWith(emoji, spam) ==
    [DefaultGuildRow EXCEPT !.emoji_tracking_enabled = emoji, !.spam_detection_enabled = spam]

\* a guild that has emoji tracking and spam detection switched on, and thresholds
InitPipeline(windows, counts) ==
    /\ FreshConfigManager
    /\ toggleDefault = "False"
    /\ guildRows = DictSet(EmptyDict, 1, GuildRowWith("True", "True"))
    /\ \E w \in windows, n \in counts : config = Thresholds(3, Ratio(7, 10), w, n)
    /\ NoDetector
    /\ FreshStatistics
    /\ FreshOthers

\* a failure is drawn only for a storage call the handler makes: the read of
\* an uncached guild, the recording of a message.  The read of the author's
\* settings succeeds in these runs (NextConfig draws its failure).
ReadFailures(g) == IF g # NoGuild /\ g \notin DOMAIN guild_cache THEN BOOLEAN ELSE {FALSE}

RecordFailures(g, dbFails) == IF g # NoGuild /\ ~dbFails THEN RecordFailPoints ELSE {"none"}

InitSpam == InitPipeline({MaxWindow}, {1})

NextSpam ==
    \/ /\ sends < MaxSends
       /\ \E bot \in BOOLEAN, u \in UserIds, g \in GuildIds \cup {NoGuild}, c \in SpamMessages :
             \E dbFails \in ReadFailures(g), userFails \in {FALSE} :
                \E recFail \in RecordFailures(g, dbFails) :
                   OnMessage(bot, u, g, c, dbFails, userFails, recFail)
    \/ Tick

SpecSpam == InitSpam /\ [][NextSpam]_vars

\* one user sending one message, which matches no text rule, again and again
InitRepeat == InitPipeline(1..MaxWindow, 1..MaxRepeatCount)

NextRepeat ==
    \/ /\ sends < MaxBurst
       /\ \E u \in {1}, g \in GuildIds, c \in {<<"a", "b">>} :
             \E dbFails \in ReadFailures(g), userFails \in {FALSE} :
                \E recFail \in RecordFailures(g, dbFails) :
                   OnMessage(FALSE, u, g, c, dbFails, userFails, recFail)
    \/ Tick

SpecRepeat == InitRepeat /\ [][NextRepeat]_vars

----------------------------------------------------------------------------
(* The text detectors applied to drawn inputs *)

ApplyCharRepetition ==
    /\ detect.fn = "none"
    /\ detect' = [fn |-> "_detect_char_repetition",
                  result |-> DetectCharRepetition(content, config.SPAM_CHAR_REPETITION_THRESHOLD)]
    /\ UNCHANGED <<cfgVars, config, content, spamVars, otherVars>>

ApplyCapsSpam ==
    /\ detect.fn = "none"
    /\ detect' = [fn |-> "_detect_caps_spam",
                  result |-> DetectCapsSpam(content, config.SPAM_CAPS_RATIO_THRESHOLD)]
    /\ UNCHANGED <<cfgVars, config, content, spamVars, otherVars>>

InitRep ==
    /\ FreshConfigManager
    /\ guildRows = EmptyDict
    /\ toggleDefault = "False"
    /\ \E t \in 1..MaxCharThreshold : config = Thresholds(t, Ratio(7, 10), 2, 2)
    /\ content \in Strings(RepAlphabet, MaxRepLen)
    /\ detect = [fn |-> "none", result |-> FALSE]
    /\ FreshStatistics
    /\ FreshOthers

NextRep == ApplyCharRepetition

SpecRep == InitRep /\ [][NextRep]_vars

InitCaps ==
    /\ FreshConfigManager
    /\ guildRows = EmptyDict
    /\ toggleDefault = "False"
    /\ \E r \in CapsRatios : config = Thresholds(3, r, 2, 2)
    /\ content \in CapsMessages
    /\ detect = [fn |-> "none", result |-> FALSE]
    /\ FreshStatistics
    /\ FreshOthers

NextCaps == ApplyCapsSpam

SpecCaps == InitCaps /\ [][NextCaps]_vars

----------------------------------------------------------------------------
(* Statistics: voice sessions, opt-out and configuration commands *)

Channels == {1, 2}

\* leave_ts of a session that is still open (the column is null)
NullTs == -1

\* the open sessions of user u: rows whose leave_ts is null
OpenSessions(sessions, u) ==
    {i \in 1..Len(sessions) : sessions[i].user = u /\ sessions[i].leave_ts = NullTs}

\* .order_by(CallSession.join_ts.desc()).first(): the rows it may return
LatestOpen(sessions, u) ==
    {i \in OpenSessions(sessions, u) :
        \A j \in OpenSessions(sessions, u) : sessions[j].join_ts <= sessions[i].join_ts}

\* _start_voice_session(member, channel) at time t; failAt: the storage call
\* that raises.  channel_id is not a column of CallSession and is not stored.
StartVoiceSession(users, sessions, u, t, failAt) ==
    IF failAt = "user"
    THEN [users |-> users, sessions |-> sessions]
    ELSE LET users1 == GetOrCreate(users, u, DefaultUserRowOf("member"))
         IN IF failAt = "create"
            THEN [users |-> users1, sessions |-> sessions]
            ELSE [users |-> users1,
                  sessions |-> Append(sessions, [session_id |-> Len(sessions) + 1, user |-> u,
                                                 join_ts |-> t, leave_ts |-> NullTs])]

\* the columns of CallSession
CallSessionColumns == {"session_id", "user", "join_ts", "leave_ts"}

\* session.save(): the columns are written, other attributes of the object
\* are not
SaveSession(session) == [c \in CallSessionColumns |-> session[c]]

\* _end_voice_session(member, channel) at time t; pick: the row the query
\* returns; failAt: the storage call that raises.  leave_ts and duration are
\* assigned to the object the query returned, which is then saved.
EndVoiceSession(sessions, u, t, pick, failAt) ==
    IF failAt = "select" \/ LatestOpen(sessions, u) = {} \/ failAt = "save"
    THEN sessions
    ELSE LET session == [sessions[pick] EXCEPT !.leave_ts = t] @@ [duration |-> t - sessions[pick].join_ts]
         IN [sessions EXCEPT ![pick] = SaveSession(session)]

StartFailPoints == {"none", "user", "create"}

EndFailPoints == {"none", "select", "save"}

\* the rows the query of _end_voice_session may return, 0 when it finds none
Picks(sessions, u) == IF LatestOpen(sessions, u) = {} THEN {0} ELSE LatestOpen(sessions, u)

\* on_voice_state_update(member, before, after): member.bot, member u of guild
\* g, the channels before and after
OnVoiceStateUpdate(bot, u, g, before, after, dbFails, pick, failEnd, failStart) ==
    /\ IF bot
       THEN UNCHANGED <<guild_cache, guildRows, userTable, callSessions>>
       ELSE LET tracking == IF g = NoGuild
                            THEN [value |-> TRUE, cache |-> guild_cache, rows |-> guildRows]
                            ELSE IsFeatureEnabled(guild_cache, guildRows, g, "call_tracking", dbFails)
            IN /\ guild_cache' = tracking.cache
               /\ guildRows' = tracking.rows
               /\ IF ~tracking.value
                  THEN UNCHANGED <<userTable, callSessions>>
                  ELSE IF before = NoChannel /\ after # NoChannel
                  THEN LET st == StartVoiceSession(userTable, callSessions, u, now, failStart)
                       IN /\ userTable' = st.users
                          /\ callSessions' = st.sessions
                  ELSE IF before # NoChannel /\ after = NoChannel
                  THEN /\ callSessions' = EndVoiceSession(callSessions, u, now, pick, failEnd)
                       /\ UNCHANGED userTable
                  ELSE IF before # after
                  THEN LET ended == EndVoiceSession(callSessions, u, now, pick, failEnd)
                           st == StartVoiceSession(userTable, ended, u, now, failStart)
                       IN /\ userTable' = st.users
                          /\ callSessions' = st.sessions
                  ELSE UNCHANGED <<userTable, callSessions>>
    /\ voice' = IF bot THEN voice ELSE [voice EXCEPT ![u] = after]
    /\ UNCHANGED <<user_cache, userRows, toggleDefault, lastWrite, ret, textVars,
                   spam_cache, now, spamStats, emoji_stats, emoji_file, seen, written, last, sends,
                   currencyVars, afkVars>>

\* !optout
OptOut(u, failAt) == SetUserOptOut(u, "True", failAt)

\* !optin
OptIn(u, failAt) == SetUserOptOut(u, "False", failAt)

\* valid_features
ValidFeatures == {"emoji", "spam", "call"}

\* the words a caller may pass as feature
FeatureWords == ValidFeatures \cup {"voice"}

\* f"{feature}_tracking_enabled"
TrackingKey(feature) == feature \o "_tracking_enabled"

\* config_enable / config_disable with an invalid feature: only a message is sent
ConfigRejected(g, feature) ==
    /\ ret' = [op |-> "config", key |-> g, k |-> feature, raised |-> FALSE, value |-> "invalid"]
    /\ UNCHANGED <<guild_cache, user_cache, guildRows, userRows, toggleDefault, lastWrite,
                   textVars, spamVars, otherVars>>

\* !config enable <feature>
ConfigEnable(g, feature, failAt) ==
    IF feature \notin ValidFeatures
    THEN ConfigRejected(g, feature)
    ELSE UpdateGuildConfig(g, TrackingKey(feature), "True", failAt)

\* !config disable <feature>
ConfigDisable(g, feature, failAt) ==
    IF feature \notin ValidFeatures
    THEN ConfigRejected(g, feature)
    ELSE UpdateGuildConfig(g, TrackingKey(feature), "False", failAt)

MaxSessions == 2

\* a stored row of the guild with the three features switched on
GuildRowAllOn ==
    [DefaultGuildRow EXCEPT !.emoji_tracking_enabled = "True",
                            !.spam_detection_enabled = "True",
                            !.call_tracking_enabled = "True"]

\* one member of a guild that tracks everything, who opts out and in, writes
\* and moves between voice channels
InitOptOut ==
    /\ FreshConfigManager
    /\ toggleDefault = "False"
    /\ guildRows = DictSet(EmptyDict, 1, GuildRowAllOn)
    /\ config = Thresholds(3, Ratio(7, 10), MaxWindow, 1)
    /\ NoDetector
    /\ FreshStatistics
    /\ FreshOthers

UserReadFailures(u) == IF u \notin DOMAIN user_cache THEN BOOLEAN ELSE {FALSE}

NextOptOut ==
    \/ \E failAt \in FailPoints : OptOut(1, failAt)
    \/ \E failAt \in FailPoints : OptIn(1, failAt)
    \/ /\ sends < MaxSends
       /\ \E dbFails \in ReadFailures(1), userFails \in UserReadFailures(1) :
             OnMessage(FALSE, 1, 1, Rep("a", 3), dbFails, userFails, "none")
    \/ /\ Len(callSessions) < MaxSessions
       /\ \E before \in Channels \cup {NoChannel}, after \in Channels \cup {NoChannel} :
             \E dbFails \in ReadFailures(1), pick \in Picks(callSessions, 1) :
                OnVoiceStateUpdate(FALSE, 1, 1, before, after, dbFails, pick, "none", "none")

SpecOptOut == InitOptOut /\ [][NextOptOut]_vars

\* a guild whose administrators enable and disable features, and the events
\* that read its configuration
InitToggle ==
    /\ FreshConfigManager
    /\ toggleDefault \in PyBools
    /\ guildRows = EmptyDict
    /\ config = SomeThresholds
    /\ NoDetector
    /\ FreshStatistics
    /\ FreshOthers

NextToggle ==
    \/ \E g \in GuildIds, feature \in FeatureWords, failAt \in FailPoints : ConfigEnable(g, feature, failAt)
    \/ \E g \in GuildIds, feature \in FeatureWords, failAt \in FailPoints : ConfigDisable(g, feature, failAt)
    \/ \E g \in GuildIds, dbFails \in BOOLEAN : GetGuildConfig(g, dbFails)

SpecToggle == InitToggle /\ [][NextToggle]_vars

\* the members of a guild joining, leaving and switching voice channels as
\* Discord reports it, while administrators switch call tracking on and off
\* and seconds pass; the storage answers every call
NextVoice ==
    \/ \E g \in GuildIds : ConfigEnable(g, "call", "none")
    \/ \E g \in GuildIds : ConfigDisable(g, "call", "none")
    \/ \E bot \in BOOLEAN, u \in UserIds, g \in GuildIds, after \in Channels \cup {NoChannel} :
          \E pick \in Picks(callSessions, u) :
             /\ after # NoChannel => Len(callSessions) < MaxSessions
             /\ OnVoiceStateUpdate(bot, u, g, voice[u], after, FALSE, pick, "none", "none")
    \/ Tick

SpecVoice == InitToggle /\ [][NextVoice]_vars

\* a guild with emoji tracking and spam detection each on or off
InitGate ==
    /\ FreshConfigManager
    /\ toggleDefault = "False"
    /\ \E emoji \in PyBools, spam \in PyBools : guildRows = DictSet(EmptyDict, 1, GuildRowWith(emoji, spam))
    /\ config = Thresholds(3, Ratio(7, 10), MaxWindow, 1)
    /\ NoDetector
    /\ FreshStatistics
    /\ FreshOthers

\* the messages sent through the gates: one that matches no text rule, one
\* with a run of three, one in capitals without a run
GateMessages == {<<"a", "b">>, Rep("a", 3), [i \in 1..11 |-> IF i % 2 = 1 THEN "A" ELSE "B"]}

\* a member and a bot writing in the guild and in direct messages while
\* seconds pass, the member opting out and in; the reads of the guild's and
\* of the member's settings may fail
NextGate ==
    \/ OptOut(1, "none")
    \/ OptIn(1, "none")
    \/ /\ sends < MaxSends
       /\ \E bot \in BOOLEAN, g \in GuildIds \cup {NoGuild}, c \in GateMessages :
             \E dbFails \in ReadFailures(g), userFails \in UserReadFailures(1) :
                OnMessage(bot, 1, g, c, dbFails, userFails, "none")
    \/ Tick

SpecGate == InitGate /\ [][NextGate]_vars

\* a guild with emoji tracking switched on and spam detection off
InitEmoji ==
    /\ FreshConfigManager
    /\ toggleDefault = "False"
    /\ guildRows = DictSet(EmptyDict, 1, GuildRowWith("True", "False"))
    /\ config = SomeThresholds
    /\ NoDetector
    /\ FreshStatistics
    /\ FreshOthers

\* the messages with and without emoji: plain text, :) and :( alone, a
\* custom emoji named D, and a GRINNING FACE before :):)
EmojiMessages ==
    {<<"a", "b">>, <<":", ")">>, <<":", "(">>, <<"<", ":", "D", ":", "3", ">">>,
     <<"U+1F600", ":", ")", ":", ")">>}

\* the messages handled while emoji are counted
MaxEmojiSends == 2

\* two members writing in the guild while seconds pass
NextEmoji ==
    \/ /\ sends < MaxEmojiSends
       /\ \E u \in UserIds, c \in EmojiMessages :
             OnMessage(FALSE, u, 1, c, FALSE, FALSE, "none")
    \/ Tick

SpecEmoji == InitEmoji /\ [][NextEmoji]_vars

----------------------------------------------------------------------------
(* decimal.Decimal                                                         *)
(*                                                                         *)
(* A finite Decimal is its sign, the digits of its coefficient (most       *)
(* significant first, no leading zero; no digit at all for zero) and its   *)
(* exponent.  Arithmetic is that of the default context: 28 significant    *)
(* digits, ROUND_HALF_EVEN.  Only the value of a result is kept: trailing  *)
(* zeros of the coefficient are moved into the exponent.                   *)

\* getcontext().prec
DecimalPrec == 28

Digits == 0..9

Zeros(n) == [i \in 1..n |-> 0]

RECURSIVE StripLeading(_)
StripLeading(d) == IF d # << >> /\ Head(d) = 0 THEN StripLeading(Tail(d)) ELSE d

RECURSIVE TrailingZeros(_)
TrailingZeros(d) ==
    IF d # << >> /\ d[Len(d)] = 0 THEN 1 + TrailingZeros(SubSeq(d, 1, Len(d) - 1)) ELSE 0

Finite(neg, digits, exp) == [kind |-> "finite", neg |-> neg, digits |-> digits, exp |-> exp]

DecNaN == [kind |-> "NaN", neg |-> FALSE, digits |-> << >>, exp |-> 0]

DecInfinity == [kind |-> "Infinity", neg |-> FALSE, digits |-> << >>, exp |-> 0]

\* the value of sign, digits and exponent: no leading and no trailing zeros
Normal(neg, digits, exp) ==
    LET d == StripLeading(digits)
        z == TrailingZeros(d)
    IN IF d = << >> THEN Finite(neg, << >>, 0)
       ELSE Finite(neg, SubSeq(d, 1, Len(d) - z), exp + z)

\* digits + 1, as digits
RECURSIVE Increment(_)
Increment(d) ==
    IF d = << >> THEN <<1>>
    ELSE IF d[Len(d)] < 9 THEN [d EXCEPT ![Len(d)] = @ + 1]
    ELSE Append(Increment(SubSeq(d, 1, Len(d) - 1)), 0)

\* ROUND_HALF_EVEN of digits (followed by something non-zero when sticky) to
\* the first keep digits; keep may be 0 or negative
RoundHalfEven(neg, digits, exp, sticky, keep) ==
    IF Len(digits) <= keep
    THEN Normal(neg, digits, exp)
    ELSE LET k == IF keep < 0 THEN 0 ELSE keep
             head == SubSeq(digits, 1, k)
             next == IF keep < 0 THEN 0 ELSE digits[k + 1]
             rest == SubSeq(digits, k + 2, Len(digits))
             more == sticky \/ (\E i \in 1..Len(rest) : rest[i] # 0)
                            \/ (keep < 0 /\ \E i \in 1..Len(digits) : digits[i] # 0)
             odd == k > 0 /\ head[k] % 2 = 1
             up == next > 5 \/ (next = 5 /\ (more \/ odd))
         IN Normal(neg, IF up THEN Increment(head) ELSE head, exp + (Len(digits) - k))

\* the context rounding of an exact result
Rounded(neg, digits, exp, sticky) ==
    LET d == StripLeading(digits)
    IN RoundHalfEven(neg, d, exp, sticky, DecimalPrec)

\* digits // m and digits % m for a small positive integer m
RECURSIVE LongDivision(_, _, _, _)
LongDivision(digits, m, rem, quot) ==
    IF digits = << >> THEN [quot |-> quot, rem |-> rem]
    ELSE LET n == rem * 10 + Head(digits)
         IN LongDivision(Tail(digits), m, n % m, Append(quot, n \div m))

\* digits * m for a small positive integer m
RECURSIVE LongProduct(_, _, _, _)
LongProduct(digits, m, carry, prod) ==
    IF digits = << >>
    THEN IF carry = 0 THEN prod ELSE LongProduct(<< >>, m, carry \div 10, <<carry % 10>> \o prod)
    ELSE LET n == digits[Len(digits)] * m + carry
         IN LongProduct(SubSeq(digits, 1, Len(digits) - 1), m, n \div 10, <<n % 10>> \o prod)

\* the digits of a natural number
RECURSIVE DigitsOf(_)
DigitsOf(n) == IF n = 0 THEN << >> ELSE Append(DigitsOf(n \div 10), n % 10)

\* a rate: Decimal(str(x)) of a float x whose shortest repr is c * 10^e
Rate(c, e) == [c |-> c, e |-> e]

\* x / Decimal(str(rate)), for a positive x and a non-zero rate
DecimalDivide(x, r) ==
    IF x.kind # "finite" THEN x ELSE
    LET pad == DecimalPrec + 12
        m == IF r.c < 0 THEN -r.c ELSE r.c
        d == LongDivision(x.digits \o Zeros(pad), m, 0, << >>)
    IN Rounded(x.neg # (r.c < 0), d.quot, x.exp - pad - r.e, d.rem # 0)

\* x * Decimal(str(rate)), for a positive x and a non-zero rate
DecimalTimes(x, r) ==
    IF x.kind # "finite" THEN x ELSE
    LET m == IF r.c < 0 THEN -r.c ELSE r.c
    IN Rounded(x.neg # (r.c < 0), LongProduct(x.digits, m, 0, << >>), x.exp + r.e, FALSE)

\* format(x, ".2f") of a finite x, as the whole number of hundredths shown
\* (sign apart)
Hundredths(x) ==
    IF x.exp >= -2
    THEN Normal(FALSE, x.digits \o Zeros(x.exp + 2), 0)
    ELSE LET r == RoundHalfEven(FALSE, x.digits, x.exp, FALSE, Len(x.digits) + x.exp + 2)
         IN Normal(FALSE, r.digits \o Zeros(r.exp + 2), 0)

----------------------------------------------------------------------------
(* cogs/currency.py                                                        *)
(*                                                                         *)
(* Text the user types (the amount, the two currency codes) is a sequence  *)
(* of characters.                                                          *)

SUPPORTED_CURRENCIES == {"CNY", "ZAR", "USD"}

FALLBACK_RATES == [USD |-> Rate(1, 0), CNY |-> Rate(724, -2), ZAR |-> Rate(1812, -2)]

\* self.cache_duration = timedelta(days=1), in seconds
CacheDuration == 86400

CaseMap ==
    [a |-> "A", c |-> "C", d |-> "D", e |-> "E", f |-> "F", h |-> "H", i |-> "I",
     m |-> "M", n |-> "N", r |-> "R", s |-> "S", t |-> "T", u |-> "U", y |-> "Y",
     z |-> "Z"]

\* str.upper, on the letters typed
Upper(c) == IF c \in DOMAIN CaseMap THEN CaseMap[c] ELSE c

UpperText(s) == [i \in 1..Len(s) |-> Upper(s[i])]

\* str.strip
RECURSIVE Strip(_)
Strip(s) ==
    IF s = << >> THEN s
    ELSE IF Head(s) = " " THEN Strip(Tail(s))
    ELSE IF s[Len(s)] = " " THEN Strip(SubSeq(s, 1, Len(s) - 1))
    ELSE s

\* str.replace(c, "")
Without(s, c) == SelectSeq(s, LAMBDA x : x # c)

\* the string a sequence of characters spells
RECURSIVE Text(_)
Text(s) == IF s = << >> THEN "" ELSE Head(s) \o Text(Tail(s))

DigitChars == <<"0", "1", "2", "3", "4", "5", "6", "7", "8", "9">>

IsDigit(c) == \E d \in 1..10 : DigitChars[d] = c

DigitValue(c) == (CHOOSE d \in 1..10 : DigitChars[d] = c) - 1

AllDigits(s) == \A i \in 1..Len(s) : IsDigit(s[i])

\* int() of a short run of digits
RECURSIVE NumberOf(_)
NumberOf(s) ==
    IF s = << >> THEN 0 ELSE NumberOf(SubSeq(s, 1, Len(s) - 1)) * 10 + DigitValue(s[Len(s)])

\* Decimal(text): the value, or InvalidOperation
ParseDecimal(text) ==
    LET s == Without(Strip(text), "_")
        signed == s # << >> /\ s[1] \in {"+", "-"}
        neg == signed /\ s[1] = "-"
        body == IF signed THEN Tail(s) ELSE s
        word == Text(UpperText(body))
        es == {i \in 1..Len(body) : Upper(body[i]) = "E"}
        e == IF es = {} THEN Len(body) + 1 ELSE CHOOSE i \in es : \A j \in es : i <= j
        mant == SubSeq(body, 1, e - 1)
        expo == SubSeq(body, e + 1, Len(body))
        points == {i \in 1..Len(mant) : mant[i] = "."}
        mdigits == Without(mant, ".")
        esigned == expo # << >> /\ expo[1] \in {"+", "-"}
        edigits == IF esigned THEN Tail(expo) ELSE expo
        mantOk == Cardinality(points) <= 1 /\ mdigits # << >> /\ AllDigits(mdigits)
        expoOk == es = {} \/ (edigits # << >> /\ AllDigits(edigits))
        frac == IF points = {} THEN 0 ELSE Len(mant) - (CHOOSE i \in points : TRUE)
        shift == IF esigned /\ expo[1] = "-" THEN -NumberOf(edigits) ELSE NumberOf(edigits)
    IN IF word \in {"INF", "INFINITY"} THEN [ok |-> TRUE, value |-> [DecInfinity EXCEPT !.neg = neg]]
       ELSE IF word \in {"NAN", "SNAN"} THEN [ok |-> TRUE, value |-> [DecNaN EXCEPT !.neg = neg]]
       ELSE IF mantOk /\ expoOk
            THEN [ok |-> TRUE,
                  value |-> Normal(neg, [i \in 1..Len(mdigits) |-> DigitValue(mdigits[i])], shift - frac)]
       ELSE [ok |-> FALSE, value |-> DecNaN]

\* from_currency.upper().strip()
NormalizeCode(code) == Text(Strip(UpperText(code)))

\* the validation without the test on the sign of the amount
RejectionOfText(amount, from_currency, to_currency) ==
    LET from == NormalizeCode(from_currency)
        to == NormalizeCode(to_currency)
        parsed == ParseDecimal(Without(amount, ","))
    IN IF from \notin SUPPORTED_CURRENCIES THEN "Invalid source currency"
       ELSE IF to \notin SUPPORTED_CURRENCIES THEN "Invalid target currency"
       ELSE IF from = to THEN "Source and target currencies cannot be the same!"
       ELSE IF ~parsed.ok \/ parsed.value.kind = "NaN" THEN "Invalid amount"
       ELSE ""

\* the validation of convert: the error it sends, or "" when it goes on
Rejection(amount, from_currency, to_currency) ==
    LET from == NormalizeCode(from_currency)
        to == NormalizeCode(to_currency)
        parsed == ParseDecimal(Without(amount, ","))
    IN IF from \notin SUPPORTED_CURRENCIES THEN "Invalid source currency"
       ELSE IF to \notin SUPPORTED_CURRENCIES THEN "Invalid target currency"
       ELSE IF from = to THEN "Source and target currencies cannot be the same!"
       ELSE IF ~parsed.ok THEN "Invalid amount"
       \* NaN <= 0 raises InvalidOperation
       ELSE IF parsed.value.kind = "NaN" THEN "Invalid amount"
       ELSE IF parsed.value.neg \/ (parsed.value.kind = "finite" /\ parsed.value.digits = << >>)
            THEN "Amount must be greater than 0!"
       ELSE ""

\* amount_decimal of a request that passed validation
AmountDecimal(amount) == ParseDecimal(Without(amount, ",")).value

\* the conversion with the two rates exchanged
ConvertCurrencyInverted(amount, from_currency, to_currency, table) ==
    LET amount_in_usd == DecimalDivide(amount, table[to_currency])
    IN DecimalTimes(amount_in_usd, table[from_currency])

\* the conversion with the amount in USD kept to the cent
ConvertCurrencyToTheCent(amount, from_currency, to_currency, table) ==
    LET amount_in_usd == DecimalDivide(amount, table[from_currency])
        cents == IF amount_in_usd.kind = "finite"
                 THEN LET h == Hundredths(amount_in_usd) IN Normal(FALSE, h.digits, h.exp - 2)
                 ELSE amount_in_usd
    IN DecimalTimes(cents, table[to_currency])

ConvertCurrency(amount, from_currency, to_currency, table) ==
    LET amount_in_usd == DecimalDivide(amount, table[from_currency])
    IN DecimalTimes(amount_in_usd, table[to_currency])

\* the staleness test with the cache expiring at 24 hours sharp
StaleAtExpiry(table, updated, t) ==
    \/ DOMAIN table = {}
    \/ updated = NoUpdate
    \/ t - updated >= CacheDuration

\* the condition under which get_exchange_rates fetches
Stale(table, updated, t) ==
    \/ DOMAIN table = {}
    \/ updated = NoUpdate
    \/ t - updated > CacheDuration

\* what convert sends once it has the rates: the embed with the converted
\* amount, or the exception the arithmetic raises
Converted(amount, from, to, table) ==
    IF amount.kind = "finite" /\ table[from].c = 0
    THEN [kind |-> "raised", error |-> "DivisionByZero", rates |-> table]
    ELSE IF amount.kind = "Infinity" /\ table[to].c = 0
    THEN [kind |-> "raised", error |-> "InvalidOperation", rates |-> table]
    ELSE [kind |-> "converted", amount |-> amount, from |-> from, to |-> to,
          rates |-> table, result |-> ConvertCurrency(amount, from, to, table)]

\* /convert up to its first wait on the network: validation, then
\* get_exchange_rates up to the fetch, or to the end when the cache is fresh
Convert(h, amount, from_currency, to_currency) ==
    LET reason == Rejection(amount, from_currency, to_currency)
        from == NormalizeCode(from_currency)
        to == NormalizeCode(to_currency)
    IN /\ task[h].pc = "idle"
       /\ IF reason # ""
          THEN /\ reply' = [reply EXCEPT ![h] = [kind |-> "error", error |-> reason]]
               /\ UNCHANGED <<rates, last_update, task>>
          ELSE IF Stale(rates, last_update, now)
          THEN /\ task' = [task EXCEPT ![h] = [pc |-> "fetching", amount |-> AmountDecimal(amount),
                                                from |-> from, to |-> to]]
               /\ reply' = [reply EXCEPT ![h] = NoReply]
               /\ UNCHANGED <<rates, last_update>>
          ELSE /\ reply' = [reply EXCEPT ![h] = Converted(AmountDecimal(amount), from, to, rates)]
               /\ UNCHANGED <<rates, last_update, task>>
       /\ UNCHANGED <<failed_at, cfgVars, textVars, spamVars, callVars, afkVars>>

\* what the request to the rates endpoint comes to: a connection error or a
\* timeout, a status, and for status 200 a body that is not JSON, JSON
\* without "rates", or the rates it lists
LiveRates ==
    { [CNY |-> Rate(71, -1), ZAR |-> Rate(17953, -3)],
      [ZAR |-> Rate(185, -1)],
      [CNY |-> Rate(0, -1), ZAR |-> Rate(18, 0)] }

Responses ==
    {[status |-> 0, body |-> "raised"], [status |-> 500, body |-> "error"],
     [status |-> 200, body |-> "not json"], [status |-> 200, body |-> "no rates"]}
    \cup {[status |-> 200, body |-> "rates", rates |-> r] : r \in LiveRates}

\* data["rates"].get(code, self.FALLBACK_RATES[code])
RateOr(listed, code) == IF code \in DOMAIN listed THEN listed[code] ELSE FALLBACK_RATES[code]

\* whether fetch_exchange_rates stores the response
Stored(response) == response.status = 200 /\ response.body = "rates"

\* fetch_exchange_rates from the response up to leaving the session
FetchExchangeRates(h, response) ==
    /\ task[h].pc = "fetching"
    /\ IF Stored(response)
       THEN /\ rates' = [USD |-> Rate(1, 0),
                         CNY |-> RateOr(response.rates, "CNY"),
                         ZAR |-> RateOr(response.rates, "ZAR")]
            /\ last_update' = now
       ELSE UNCHANGED <<rates, last_update>>
    /\ task' = [task EXCEPT ![h] = [pc |-> "fetched", amount |-> @.amount, from |-> @.from,
                                     to |-> @.to, response |-> response,
                                     success |-> Stored(response)]]
    /\ UNCHANGED <<reply, failed_at, cfgVars, textVars, spamVars, callVars, afkVars>>

\* the table left after a fetch when the fallback is used only while nothing
\* is cached
AfterFetchKeepingCache(success, table) == IF DOMAIN table # {} THEN table ELSE FALLBACK_RATES

\* the table get_exchange_rates leaves and returns after a fetch
AfterFetch(success, table) == IF success THEN table ELSE FALLBACK_RATES

\* get_exchange_rates after the fetch, and the rest of convert
GetExchangeRates(h) ==
    LET t == task[h]
        table == AfterFetch(t.success, rates)
    IN /\ t.pc = "fetched"
       /\ rates' = table
       /\ last_update' = IF t.success THEN last_update ELSE now
       /\ failed_at' = IF t.success THEN failed_at ELSE now
       /\ task' = [task EXCEPT ![h] = Idle]
       /\ reply' = [reply EXCEPT ![h] = Converted(t.amount, t.from, t.to, table)]
       /\ UNCHANGED <<cfgVars, textVars, spamVars, callVars, afkVars>>

\* the days the clock may run
MaxDays == 2

\* time passes: a second, at most MaxTime of them in a row, or a day
Elapse(d) ==
    /\ now + d <= MaxDays * CacheDuration + MaxTime
    /\ d = 1 => now % CacheDuration < MaxTime
    /\ now' = now + d
    /\ UNCHANGED <<cfgVars, textVars, spam_cache, userTable, spamStats, emoji_stats, emoji_file, seen,
                   written, last, sends, otherVars>>

\* the longest amount typed, in digits before the point
MaxAmountDigits == 27

\* an amount of n nines and 99 hundredths
Nines(n) == Rep("9", n) \o <<".", "9", "9">>

\* the amounts typed: ordinary ones, ones with a grouping comma, a third
\* decimal, an exponent, spaces, the word inf, long ones, and ones that
\* validation rejects
AmountTexts ==
    {<<"1", "0", "0">>,
     <<"0", ".", "0", "1">>,
     <<"1", ",", "0", "0", "0">>,
     <<"3", "3", ".", "3", "3">>,
     <<"0", ".", "0", "0", "5">>,
     <<"1", "e", "3">>,
     <<" ", "5", " ">>,
     <<"i", "n", "f">>}
    \cup {Nines(n) : n \in {DecimalPrec - 4, MaxAmountDigits}}
    \cup {<<>>,
          <<"a", "b", "c">>,
          <<"0">>,
          <<"-", "5">>,
          <<"N", "a", "N">>,
          <<"1", ".", "2", ".", "3">>}

\* the currency codes typed
CodeTexts ==
    {<<"U", "S", "D">>, <<" ", "c", "n", "y", " ">>, <<"Z", "A", "R">>, <<"E", "U", "R">>}

\* one fixed boolean default, an empty database and a converter just built
InitCurrency ==
    /\ FreshConfigManager
    /\ toggleDefault = "True"
    /\ guildRows = EmptyDict
    /\ config = SomeThresholds
    /\ NoDetector
    /\ FreshStatistics
    /\ FreshOthers

\* one user converting amounts, one request at a time, over days
NextConvert ==
    \/ \E amount \in AmountTexts, from \in CodeTexts, to \in CodeTexts : Convert(1, amount, from, to)
    \/ \E response \in Responses : FetchExchangeRates(1, response)
    \/ GetExchangeRates(1)
    \/ Elapse(CacheDuration)

SpecConvert == InitCurrency /\ [][NextConvert]_vars

\* every failure, and one table of live rates
FewResponses == {r \in Responses : r.body = "rates" => DOMAIN r.rates = {"CNY", "ZAR"} /\ r.rates["CNY"].c > 0}

\* requests that may overlap, over seconds and days
NextRates ==
    \/ \E h \in Handlers, amount \in {<<"1", "0", "0">>, <<"a", "b", "c">>}, to \in {<<"C", "N", "Y">>, <<"U", "S", "D">>} :
          Convert(h, amount, <<"U", "S", "D">>, to)
    \/ \E h \in Handlers, response \in FewResponses : FetchExchangeRates(h, response)
    \/ \E h \in Handlers : GetExchangeRates(h)
    \/ \E d \in {1, CacheDuration} : Elapse(d)

SpecRates == InitCurrency /\ [][NextRates]_vars

----------------------------------------------------------------------------
(* cogs/afk.py                                                             *)
(*                                                                         *)
(* An optional argument that is None or "" is the empty text; an optional  *)
(* column holds << >> for null and <<v>> for the value v.                  *)

\* str.lower, on the letters typed
LowerCase(c) ==
    IF \E k \in DOMAIN CaseMap : CaseMap[k] = c THEN CHOOSE k \in DOMAIN CaseMap : CaseMap[k] = c ELSE c

LowerText(s) == [i \in 1..Len(s) |-> LowerCase(s[i])]

\* int(text): the value, or ValueError
ParseInt(text) ==
    LET s == Strip(text)
        signed == s # << >> /\ s[1] \in {"+", "-"}
        digits == IF signed THEN Tail(s) ELSE s
    IN IF digits # << >> /\ AllDigits(digits)
       THEN [ok |-> TRUE, value |-> IF signed /\ s[1] = "-" THEN -NumberOf(digits) ELSE NumberOf(digits)]
       ELSE [ok |-> FALSE, value |-> 0]

\* _parse_time_delta(time_str): << >> for None, else the timedelta in seconds
ParseTimeDelta(time_str) ==
    LET s == LowerText(Strip(time_str))
        unit == IF s = << >> THEN "" ELSE s[Len(s)]
        n == ParseInt(SubSeq(s, 1, Len(s) - 1))
    IN IF unit \notin {"h", "m", "d"} \/ ~n.ok THEN << >>
       ELSE IF unit = "h" THEN <<n.value * 3600>>
       ELSE IF unit = "m" THEN <<n.value * 60>>
       ELSE <<n.value * 86400>>

\* _get_or_create_user(user_id, username): the users table after the call
GetOrCreateUser(users, u, username) ==
    IF u \notin DOMAIN users THEN DictSet(users, u, DefaultUserRowOf(username))
    ELSE IF users[u].discord_name # username THEN DictSet(users, u, [users[u] EXCEPT !.discord_name = username])
    ELSE users

\* the validation of afk at time t: the error it sends, or "" and the
\* expected return time when it goes on
AfkValidation(expected_back, timezone_offset, t) ==
    LET delta == ParseTimeDelta(expected_back)
        tz == ParseInt(timezone_offset)
    IN IF expected_back # << >> /\ (delta = << >> \/ delta[1] = 0)
       THEN [error |-> "Invalid time format! Use '2h', '30m', or '1d' format.", expected_back_dt |-> << >>]
       ELSE IF timezone_offset # << >> /\ ~tz.ok
       THEN [error |-> "Invalid timezone offset! Use format like '+8' or '-5'.", expected_back_dt |-> << >>]
       ELSE IF timezone_offset # << >> /\ (tz.value < -12 \/ tz.value > 14)
       THEN [error |-> "Invalid timezone offset! Must be between -12 and +14.", expected_back_dt |-> << >>]
       ELSE [error |-> "",
             expected_back_dt |-> IF expected_back = << >> THEN << >> ELSE <<t + delta[1]>>]

\* the rows of afk_status that belong to user u
StatusesOf(statuses, u) == {i \in 1..Len(statuses) : statuses[i].user = u}

\* the row AFKStatus.get(AFKStatus.user == user) returns
FirstStatusOf(statuses, u) == CHOOSE i \in StatusesOf(statuses, u) : \A j \in StatusesOf(statuses, u) : i <= j

\* a status that is appended whether or not the user has one
SetStatusAppending(statuses, u, reason, expected_back_dt, t) ==
    Append(statuses, [user |-> u, reason |-> reason, expected_back |-> expected_back_dt, set_at |-> t])

\* AFKStatus.get_or_create(user=user, defaults=...) and the update of a row
\* that was there
SetStatus(statuses, u, reason, expected_back_dt, t) ==
    LET row == [user |-> u, reason |-> reason, expected_back |-> expected_back_dt, set_at |-> t]
    IN IF StatusesOf(statuses, u) = {} THEN Append(statuses, row)
       ELSE [statuses EXCEPT ![FirstStatusOf(statuses, u)] = row]

\* /afk by user u, whose Discord name is username; failAt: the storage call
\* that raises
Afk(u, username, reason, expected_back, timezone_offset, failAt) ==
    LET users1 == GetOrCreateUser(userTable, u, username)
        checked == AfkValidation(expected_back, timezone_offset, now)
    IN /\ IF failAt = "user"
          THEN /\ afkReply' = [kind |-> "raised", user |-> u]
               /\ UNCHANGED <<userTable, afkStatuses>>
          ELSE IF checked.error # ""
          THEN /\ userTable' = users1
               /\ afkReply' = [kind |-> "error", user |-> u, error |-> checked.error]
               /\ UNCHANGED afkStatuses
          ELSE IF failAt = "status"
          THEN /\ userTable' = users1
               /\ afkReply' = [kind |-> "raised", user |-> u]
               /\ UNCHANGED afkStatuses
          ELSE /\ userTable' = users1
               /\ afkStatuses' = SetStatus(afkStatuses, u, reason, checked.expected_back_dt, now)
               /\ afkReply' = [kind |-> "set", user |-> u, reason |-> reason,
                               expected_back |-> checked.expected_back_dt]
       /\ UNCHANGED <<listener, cfgVars, textVars, spam_cache, now, spamStats, emoji_stats, emoji_file,
                      seen, written, last, sends, callVars, currencyVars>>

\* a duration that always names its hours
DurationStrWithHours(seconds) ==
    ToString(seconds \div 3600) \o "h " \o ToString((seconds % 3600) \div 60) \o "m"

\* f"{hours}h {minutes}m" or f"{minutes}m" of a number of seconds
DurationStr(seconds) ==
    LET hours == seconds \div 3600
        minutes == (seconds % 3600) \div 60
    IN IF hours > 0 THEN ToString(hours) \o "h " \o ToString(minutes) \o "m"
       ELSE ToString(minutes) \o "m"

\* whether user u has a User row and an AFKStatus
IsAfk(users, statuses, u) == u \in DOMAIN users /\ StatusesOf(statuses, u) # {}

\* the mentioned users the loop passes over: no User row or no AFKStatus
RECURSIVE SkipNotAfk(_, _, _)
SkipNotAfk(mentions, users, statuses) ==
    IF mentions # << >> /\ ~IsAfk(users, statuses, Head(mentions))
    THEN SkipNotAfk(Tail(mentions), users, statuses)
    ELSE mentions

\* the loop over message.mentions of listener record r, up to its next send:
\* the local variable now is bound only once a status with an expected
\* return time has been met
MentionLoop(r, users, statuses) ==
    LET rest == SkipNotAfk(r.mentions, users, statuses)
    IN IF rest = << >>
       THEN [r EXCEPT !.pc = "done", !.mentions = << >>]
       ELSE LET status == statuses[FirstStatusOf(statuses, Head(rest))]
                bound == r.nowBound \/ status.expected_back # << >>
            IN IF ~bound
               THEN [r EXCEPT !.pc = "done", !.mentions = Tail(rest), !.raised = "UnboundLocalError"]
               ELSE [r EXCEPT !.pc = "sending", !.mentions = Tail(rest), !.nowBound = TRUE,
                              !.notified = Append(@, Head(rest))]

\* a delete that removes nothing
DeleteNothing(statuses, i) == statuses

\* afk_status.delete_instance() of row i
DeleteInstance(statuses, i) ==
    [k \in 1..(Len(statuses) - 1) |-> IF k < i THEN statuses[k] ELSE statuses[k + 1]]

\* on_message(message) of the AFK cog up to its first send: message.author u,
\* message.author.bot, message.mentions
AfkOnMessage(l, bot, u, mentions) ==
    LET started == [pc |-> "sending", author |-> u, mentions |-> mentions, nowBound |-> FALSE,
                    notified |-> << >>, raised |-> "", welcome |-> ""]
    IN /\ listener[l].pc \in {"idle", "done"}
       /\ IF bot
          THEN UNCHANGED <<afkStatuses, listener>>
          ELSE IF IsAfk(userTable, afkStatuses, u)
          THEN LET i == FirstStatusOf(afkStatuses, u)
               IN /\ afkStatuses' = DeleteInstance(afkStatuses, i)
                  /\ listener' = [listener EXCEPT ![l] =
                                     [started EXCEPT !.welcome = DurationStr(now - afkStatuses[i].set_at)]]
          ELSE /\ listener' = [listener EXCEPT ![l] = MentionLoop(started, userTable, afkStatuses)]
               /\ UNCHANGED afkStatuses
       /\ UNCHANGED <<afkReply, cfgVars, textVars, spamVars, callVars, currencyVars>>

\* on_message of the AFK cog from one send to the next, or to its end
AfkOnMessageResumes(l) ==
    /\ listener[l].pc = "sending"
    /\ listener' = [listener EXCEPT ![l] = MentionLoop(@, userTable, afkStatuses)]
    /\ UNCHANGED <<afkStatuses, afkReply, cfgVars, textVars, spamVars, callVars, currencyVars>>

\* the names a user goes by: user 1 changes name, the others do not
Usernames(u) == IF u = 1 THEN {"ann", "anna"} ELSE {"bo"}

\* the reasons given: none, or one
Reasons == {"", "lunch"}

\* the expected_back typed: nothing, two hours, no time at all, not a time
BackTexts == {<< >>, <<"2", "h">>, <<"0", "h">>, <<"s", "o", "o", "n">>}

\* the timezone_offset typed: nothing, in range, out of range, not a number
ZoneTexts == {<< >>, <<"+", "8">>, <<"1", "5">>, <<"x">>}

\* message.mentions
MentionLists == {<< >>, <<1>>, <<2>>}

\* user 1 going AFK in every way, the others in one way, and all of them
\* sending messages that mention each other
NextAfk ==
    \/ \E username \in Usernames(1), reason \in Reasons, expected_back \in BackTexts,
          timezone_offset \in ZoneTexts, failAt \in {"none", "user", "status"} :
          Afk(1, username, reason, expected_back, timezone_offset, failAt)
    \/ \E u \in UserIds \ {1} : \E username \in Usernames(u) : Afk(u, username, "lunch", << >>, << >>, "none")
    \/ \E l \in Listeners, bot \in BOOLEAN, u \in UserIds, mentions \in MentionLists :
          AfkOnMessage(l, bot, u, mentions)
    \/ \E l \in Listeners : AfkOnMessageResumes(l)

SpecAfk == InitCurrency /\ [][NextAfk]_vars

\* the longest a user stays away, in hours
MaxHours == 1

\* an hour passes
HourPasses ==
    /\ now + 3600 <= MaxHours * 3600 + MaxTime
    /\ now' = now + 3600
    /\ UNCHANGED <<cfgVars, textVars, spam_cache, userTable, spamStats, emoji_stats, emoji_file, seen,
                   written, last, sends, otherVars>>

\* the expected_back typed while the clock runs: nothing, or two hours
ClockBackTexts == {<< >>, <<"2", "h">>}

\* two users going AFK and sending messages while seconds and hours pass
NextAfkClock ==
    \/ \E reason \in Reasons, expected_back \in ClockBackTexts : Afk(1, "ann", reason, expected_back, << >>, "none")
    \/ Afk(2, "bo", "lunch", << >>, << >>, "none")
    \/ \E l \in Listeners, bot \in BOOLEAN, u \in UserIds, mentions \in MentionLists :
          AfkOnMessage(l, bot, u, mentions)
    \/ \E l \in Listeners : AfkOnMessageResumes(l)
    \/ Tick
    \/ HourPasses

SpecAfkClock == InitCurrency /\ [][NextAfkClock]_vars

----------------------------------------------------------------------------
(* Claims on the configuration cache, checked under SpecConfig *)

\* config reflects value v under key k: as the toggle, or as settings[k]
Reflects(cfg, k, v) ==
    IF k \in ToggleKeys
    THEN cfg[k] = v
    ELSE k \in DOMAIN cfg.settings /\ cfg.settings[k] = v

\* what a value is after a trip through JSON text: a tuple comes back a list
AfterJson(v) == IF v = "(1, 2)" THEN "[1, 2]" ELSE v

\* C1 (as stated): after update_guild_config(g, k, v) returned True, a following
\* get_guild_config(g) returns a config that reflects v for every key k written.
C1_ReadReflectsWrite ==
    ret.op = "get_guild_config" =>
        \A k \in DOMAIN lastWrite[ret.key] : Reflects(ret.value, k, lastWrite[ret.key][k])

\* C1 (amended): after update_guild_config(g, k, v) returned True, a following
\* get_guild_config(g) whose storage access does not fail returns a config that
\* reflects v as JSON carries it (a tuple comes back as a list), whether the
\* entry was cached before the update or not.
C1_ReadReflectsWriteUnlessFallback ==
    (ret.op = "get_guild_config" /\ ret.source # "fallback") =>
        \A k \in DOMAIN lastWrite[ret.key] :
            Reflects(ret.value, k, AfterJson(lastWrite[ret.key][k]))

\* a read from the store returns a written toggle that differs from the column
\* default, and a written blob value
C1_Witness ==
    /\ ret.op = "get_guild_config"
    /\ ret.source = "store"
    /\ \E k \in ToggleKeys \cap DOMAIN lastWrite[ret.key] :
          lastWrite[ret.key][k] # toggleDefault /\ ret.value[k] = lastWrite[ret.key][k]
    /\ \E k \in BlobKeys \cap DOMAIN lastWrite[ret.key] : k \in DOMAIN ret.value.settings

\* the stored row holds value v under key k
RowHolds(row, k, v) ==
    IF k \in ToggleKeys
    THEN row[k] = v
    ELSE k \in DOMAIN row.settings_json /\ JsonLoadsValue(row.settings_json[k]) = AfterJson(v)

\* C2 (as stated): a config write never raises; on success the record is
\* persisted, no cache entry is left for the key and True is returned; on a
\* storage failure False is returned and the stored table and the cache entry
\* are unchanged.
C2_WriteContract ==
    [][/\ (ret'.op = "update_guild_config") =>
            /\ ~ret'.raised
            /\ ret'.storageFailed => ret'.value = "False"
            /\ ret'.value = "True" =>
                  /\ ret'.key \notin DOMAIN guild_cache'
                  /\ ret'.key \in DOMAIN guildRows'
                  /\ RowHolds(guildRows'[ret'.key], ret'.k, ret'.v)
            /\ (ret'.value = "False" /\ ret'.storageFailed) =>
                  /\ guild_cache' = guild_cache
                  /\ guildRows' = guildRows
       /\ (ret'.op = "set_user_opt_out") =>
            /\ ~ret'.raised
            /\ ret'.storageFailed => ret'.value = "False"
            /\ ret'.value = "True" =>
                  /\ ret'.key \notin DOMAIN user_cache'
                  /\ ret'.key \in DOMAIN userRows'
                  /\ userRows'[ret'.key].opt_out = ret'.v
            /\ (ret'.value = "False" /\ ret'.storageFailed) =>
                  /\ user_cache' = user_cache
                  /\ userRows' = userRows
      ]_vars

\* the table is the same, or a row of column defaults was inserted for a key
\* that had none
SameOrDefaultRow(before, after, key, default) ==
    \/ after = before
    \/ key \notin DOMAIN before /\ after = DictSet(before, key, default)

\* C2 (amended): a config write never raises; on success the record is
\* persisted, no cache entry is left for the key and True is returned; on a
\* storage failure False is returned, the cache is unchanged and no stored
\* value is changed, but a row of column defaults may have been inserted for a
\* key that had no row (get_or_create ran before save failed).
C2_WriteContractUpToDefaultRow ==
    [][/\ (ret'.op = "update_guild_config") =>
            /\ ~ret'.raised
            /\ ret'.storageFailed => ret'.value = "False"
            /\ ret'.value = "True" =>
                  /\ ret'.key \notin DOMAIN guild_cache'
                  /\ ret'.key \in DOMAIN guildRows'
                  /\ RowHolds(guildRows'[ret'.key], ret'.k, ret'.v)
            /\ (ret'.value = "False" /\ ret'.storageFailed) =>
                  /\ guild_cache' = guild_cache
                  /\ SameOrDefaultRow(guildRows, guildRows', ret'.key, DefaultGuildRow)
       /\ (ret'.op = "set_user_opt_out") =>
            /\ ~ret'.raised
            /\ ret'.storageFailed => ret'.value = "False"
            /\ ret'.value = "True" =>
                  /\ ret'.key \notin DOMAIN user_cache'
                  /\ ret'.key \in DOMAIN userRows'
                  /\ userRows'[ret'.key].opt_out = ret'.v
            /\ (ret'.value = "False" /\ ret'.storageFailed) =>
                  /\ user_cache' = user_cache
                  /\ SameOrDefaultRow(userRows, userRows', ret'.key, DefaultUserRow)
      ]_vars

\* a write failed in storage while a cache entry and a changed row existed,
\* and both are still there
C2_Witness ==
    /\ ret.op = "update_guild_config"
    /\ ret.storageFailed
    /\ ret.value = "False"
    /\ ret.key \in DOMAIN guild_cache
    /\ ret.key \in DOMAIN guildRows
    /\ guildRows[ret.key] # DefaultGuildRow

\* C3: a read whose key is not cached and whose storage access fails returns
\* the safe defaults (guild: the three toggles False, settings empty; user:
\* opt_out False, settings empty), raises nothing and caches nothing.
C3_FailedReadFallsBack ==
    /\ (ret.op = "get_guild_config" /\ ret.source = "fallback") =>
          /\ ~ret.raised
          /\ \A k \in ToggleKeys : ret.value[k] = "False"
          /\ DOMAIN ret.value.settings = {}
          /\ ret.key \notin DOMAIN guild_cache
    /\ (ret.op = "get_user_config" /\ ret.source = "fallback") =>
          /\ ~ret.raised
          /\ ret.value.opt_out = "False"
          /\ DOMAIN ret.value.settings = {}
          /\ ret.key \notin DOMAIN user_cache

\* a guild read fell back although the stored row has a toggle enabled
C3_Witness ==
    /\ ret.op = "get_guild_config"
    /\ ret.source = "fallback"
    /\ ret.key \in DOMAIN guildRows
    /\ guildRows[ret.key].emoji_tracking_enabled = "True"
    /\ ret.value.emoji_tracking_enabled = "False"

----------------------------------------------------------------------------
(* Claims on the text detectors, checked under SpecRep and SpecCaps *)

\* s holds n consecutive characters that are equal up to case
HasRun(s, n) ==
    \E i \in 1..(Len(s) - n + 1) : \A j \in i..(i + n - 1) : Lower(s[j]) = Lower(s[i])

\* C4: for every threshold T and message S, the character-repetition detector
\* flags S exactly when S holds a run of at least T equal characters, compared
\* case-insensitively (it flags every such S, and no S whose longest run is
\* T-1 or shorter).
C4_FlagsExactlyRuns ==
    detect.fn = "_detect_char_repetition" =>
        (detect.result <=> HasRun(content, config.SPAM_CHAR_REPETITION_THRESHOLD))

\* the letters of s that are upper case, and the letters of s
UpperLetters(s) == Cardinality({i \in 1..Len(s) : IsAlpha(s[i]) /\ IsUpper(s[i])})

Letters(s) == Cardinality({i \in 1..Len(s) : IsAlpha(s[i])})

\* C5: a message longer than 10 with at least one letter whose ratio of upper
\* case letters to letters is at or above the threshold is flagged; a message of
\* length exactly 10 is never flagged, nor is one without letters.
C5_CapsFlagged ==
    detect.fn = "_detect_caps_spam" =>
        LET th == config.SPAM_CAPS_RATIO_THRESHOLD
        IN /\ (/\ Len(content) > 10
               /\ Letters(content) > 0
               /\ UpperLetters(content) * th.den >= th.num * Letters(content))
              => detect.result
           /\ Len(content) = 10 => ~detect.result
           /\ Letters(content) = 0 => ~detect.result

\* an 11-character message whose ratio is exactly the threshold 7/10 is flagged
C5_Witness ==
    /\ detect.fn = "_detect_caps_spam"
    /\ detect.result
    /\ Len(content) = 11
    /\ config.SPAM_CAPS_RATIO_THRESHOLD = Ratio(7, 10)
    /\ UpperLetters(content) = 7
    /\ Letters(content) = 10

\* C6 (as stated): a message whose length without spaces is 10 or less is
\* never flagged as caps spam.
C6_StrippedLengthDecides ==
    (detect.fn = "_detect_caps_spam" /\ Len(StripSpaces(content)) <= 10) => ~detect.result

\* C6 (amended): the caps rule measures the raw length, spaces included: a
\* message of raw length 10 or less is never flagged, and a message of raw
\* length above 10 whose letters are all upper case is flagged even when its
\* length without spaces is 10 or less; spaces are removed only for the ratio.
C6_RawLengthDecides ==
    detect.fn = "_detect_caps_spam" =>
        /\ Len(content) <= 10 => ~detect.result
        /\ (/\ Len(content) > 10
            /\ Letters(content) > 0
            /\ UpperLetters(content) = Letters(content))
           => detect.result

\* a flagged message of raw length 11 that has 10 characters without its spaces
C6_Witness ==
    /\ detect.fn = "_detect_caps_spam"
    /\ detect.result
    /\ Len(content) = 11
    /\ Len(StripSpaces(content)) = 10

----------------------------------------------------------------------------
(* Claims on the repeated-message rule, checked under SpecRepeat *)

RepeatWindow == config.SPAM_REPEATED_MSG_WINDOW

RepeatCount == config.SPAM_REPEATED_MSG_COUNT

\* the last message was handed to the repeated-message rule
ReachedThirdRule == last.ran /\ last.third

\* the earlier sends of the last message's content by its user that lie within
\* the window before it
EarlierInWindow ==
    LET mine == seen[last.user]
    IN {i \in 1..(Len(mine) - 1) :
           mine[i].h = mine[Len(mine)].h /\ last.t - mine[i].t < RepeatWindow}

\* the last message is the k-th identical send of its user within the window
SendNumber == Cardinality(EarlierInWindow) + 1

FlaggedRepeated == last.spam_type = "repeated_messages"

\* C7 (as stated): of identical sends within the window the N-th is the first
\* one flagged as repeated_messages, N being the configured count: sends
\* 1..N-1 are not flagged and send N is.
C7_NthSendFlagged ==
    ReachedThirdRule =>
        /\ SendNumber < RepeatCount => ~FlaggedRepeated
        /\ SendNumber = RepeatCount => FlaggedRepeated

\* C7 (amended): of identical sends within the window the (N+1)-th is the
\* first one flagged as repeated_messages: sends 1..N are not flagged, send N+1
\* and every later one is; when those N+1 sends are the user's first and the
\* write succeeds, the repeated_messages record holds count 1 after send N+1
\* (with threshold 5: after the sixth send).
C7_SendAfterNthFlagged ==
    ReachedThirdRule =>
        /\ FlaggedRepeated <=> SendNumber > RepeatCount
        /\ (/\ SendNumber = RepeatCount + 1
            /\ Len(seen[last.user]) = RepeatCount + 1
            /\ last.saved)
           => /\ <<last.user, "repeated_messages">> \in DOMAIN spamStats
              /\ spamStats[<<last.user, "repeated_messages">>].count = 1

\* with threshold 5 the sixth identical send is flagged and leaves count 1
C7_Witness ==
    /\ ReachedThirdRule
    /\ RepeatCount = 5
    /\ SendNumber = 6
    /\ FlaggedRepeated
    /\ last.saved
    /\ spamStats[<<last.user, "repeated_messages">>].count = 1

\* every earlier identical send of the user is at least the window width old
AllEarlierExpired ==
    LET mine == seen[last.user]
    IN \A i \in 1..(Len(mine) - 1) :
          mine[i].h = mine[Len(mine)].h => last.t - mine[i].t >= RepeatWindow

\* C9: identical sends of one user that are each at least the window width
\* after the one before them are never flagged as repeated_messages, whatever
\* the threshold (1 or more) and however many are sent: no entry of the user's
\* window that is left after a send has an age at or beyond the window width.
C9_SpacedSendsNeverFlagged ==
    (ReachedThirdRule /\ RepeatCount >= 1) =>
        /\ AllEarlierExpired => ~FlaggedRepeated
        /\ \A i \in 1..Len(spam_cache[last.user]) :
              last.t - spam_cache[last.user][i].t < RepeatWindow

\* a third identical send, each a full window after the one before, unflagged
\* at threshold 1
C9_Witness ==
    /\ ReachedThirdRule
    /\ RepeatCount = 1
    /\ Len(seen[last.user]) >= 3
    /\ \A i \in 1..(Len(seen[last.user]) - 1) :
          seen[last.user][i + 1].t - seen[last.user][i].t >= RepeatWindow
    /\ ~FlaggedRepeated

----------------------------------------------------------------------------
(* Claims on the spam pipeline, checked under SpecSpam *)

\* the window of user u, empty when the user has none
WindowOf(cache, u) == IF u \in DOMAIN cache THEN cache[u] ELSE << >>

\* the entries of window w younger than the window width at time t
Unexpired(w, t) == SelectSeq(w, LAMBDA e : t - e.t < RepeatWindow)

\* the entries of window w that carry hash h
Matching(w, h) == {i \in 1..Len(w) : w[i].h = h}

\* a step in which a message is handed to the repeated-message rule
ThirdRuleStep == sends' = sends + 1 /\ last'.ran /\ last'.third

\* C8: the repeated-message rule flags a message exactly when, after the
\* expired entries are pruned from the user's window and before the message's
\* own hash is appended, the entries with the message's hash number at least
\* the threshold; the message's (hash, time) is appended flagged or not.
C8_CountBeforeAppend ==
    [][ThirdRuleStep =>
          LET u == last'.user
              h == Md5(last'.content)
              kept == Unexpired(WindowOf(spam_cache, u), now)
          IN /\ (last'.spam_type = "repeated_messages")
                   <=> (Cardinality(Matching(kept, h)) >= RepeatCount)
             /\ spam_cache'[u] = Append(kept, [h |-> h, t |-> now])
             /\ \A v \in UserIds \ {u} : WindowOf(spam_cache', v) = WindowOf(spam_cache, v)
      ]_vars

\* a flagged message is in its user's window, behind the entry that got it
\* flagged
C8_Witness ==
    /\ ReachedThirdRule
    /\ FlaggedRepeated
    /\ Len(spam_cache[last.user]) = 2
    /\ spam_cache[last.user][2] = [h |-> Md5(last.content), t |-> last.t]

\* the rows of the SpamStats table that a step changes or creates
ChangedRows == {k \in DOMAIN spamStats' : k \notin DOMAIN spamStats \/ spamStats'[k] # spamStats[k]}

\* a step in which the detection runs on a message
DetectionStep == sends' = sends + 1 /\ last'.ran

\* C10: a message is classified under at most one category, that of the first
\* rule it matches in the order char_repetition, caps_spam, repeated_messages;
\* it is recorded under that category only, and a message that matches no rule
\* records nothing.
C10_FirstMatchingRule ==
    [][DetectionStep =>
          LET c == last'.content
              u == last'.user
              rule1 == DetectCharRepetition(c, config.SPAM_CHAR_REPETITION_THRESHOLD)
              rule2 == DetectCapsSpam(c, config.SPAM_CAPS_RATIO_THRESHOLD)
              rule3 == Cardinality(Matching(Unexpired(WindowOf(spam_cache, u), now), Md5(c)))
                          >= RepeatCount
              kind == last'.spam_type
          IN /\ rule1 => kind = "char_repetition"
             /\ (~rule1 /\ rule2) => kind = "caps_spam"
             /\ (~rule1 /\ ~rule2 /\ rule3) => kind = "repeated_messages"
             /\ (~rule1 /\ ~rule2 /\ ~rule3) => kind = ""
             /\ ChangedRows \subseteq {<<u, kind>>}
             /\ kind = "" => spamStats' = spamStats
             /\ last'.saved =>
                   /\ <<u, kind>> \in DOMAIN spamStats'
                   /\ spamStats'[<<u, kind>>].count >= 1
      ]_vars

\* a message in capitals that is one run is recorded as char_repetition alone
C10_Witness ==
    /\ last.ran
    /\ last.content = Rep("A", 11)
    /\ DetectCapsSpam(last.content, config.SPAM_CAPS_RATIO_THRESHOLD)
    /\ last.spam_type = "char_repetition"
    /\ last.saved
    /\ DOMAIN spamStats = {<<last.user, "char_repetition">>}

\* the SpamStats count of a key, 0 when there is no row
CountOf(stats, key) == IF key \in DOMAIN stats THEN stats[key].count ELSE 0

\* C11: a message classified as spam whose write succeeds adds exactly 1 to
\* the count of its (user, category) row, which starts from count 0 when it
\* is created, and changes no other row; no count ever decreases and no row is
\* ever removed; every count equals the number of that user's messages
\* classified under that category whose write succeeded.
C11_CountsSavedMessages ==
    [][/\ \A key \in DOMAIN spamStats :
             key \in DOMAIN spamStats' /\ spamStats'[key].count >= spamStats[key].count
       /\ DetectionStep =>
             LET key == <<last'.user, last'.spam_type>>
             IN /\ last'.saved => spamStats'[key].count = CountOf(spamStats, key) + 1
                /\ ~last'.saved => \A k \in DOMAIN spamStats' : spamStats'[k].count = CountOf(spamStats, k)
                /\ \A k \in DOMAIN spamStats' \ {key} : k \in DOMAIN spamStats /\ spamStats'[k] = spamStats[k]
       /\ \A key \in DOMAIN spamStats' :
             spamStats'[key].count = IF key \in DOMAIN written' THEN written'[key] ELSE 0
      ]_vars

\* a row that two classified messages were written to
C11_Witness ==
    \E key \in DOMAIN spamStats :
        /\ spamStats[key].count = 2
        /\ key \in DOMAIN written /\ written[key] = 2

----------------------------------------------------------------------------
(* Claims on opt-out and the configuration commands, checked under           *)
(* SpecOptOut and SpecToggle                                                 *)

\* the last successful opt command of user u was !optout
OptedOut(u) == u \in DOMAIN userRows /\ userRows[u].opt_out = "True"

\* what is collected about user u: emoji counters, spam window, spam counters
\* and call sessions
CollectedAbout(emoji, windows, stats, sessions, u) ==
    [emoji |-> IF u \in DOMAIN emoji THEN <<emoji[u]>> ELSE << >>,
     window |-> WindowOf(windows, u),
     spam |-> {<<k, stats[k]>> : k \in {x \in DOMAIN stats : x[1] = u}},
     calls |-> SelectSeq(sessions, LAMBDA row : row.user = u)]

\* C12: while a user is opted out (from a successful !optout until a
\* successful !optin), no step changes the user's emoji counters, spam window
\* or spam counters, and none creates or closes a CallSession of the user.
C12_OptOutSuppressesCollection ==
    [][\A u \in UserIds :
          OptedOut(u) =>
              CollectedAbout(emoji_stats', spam_cache', spamStats', callSessions', u)
                = CollectedAbout(emoji_stats, spam_cache, spamStats, callSessions, u)
      ]_vars

\* the feature check that gates the collection of a feature
GateOf(feature) ==
    CASE feature = "emoji" -> "emoji_tracking"
      [] feature = "spam" -> "spam_detection"
      [] feature = "call" -> "call_tracking"

\* the step is a !config enable/disable of the feature that reported success
ReportsSuccess(feature, value) ==
    /\ ret' # ret
    /\ ret'.op = "update_guild_config"
    /\ ret'.k = TrackingKey(feature)
    /\ ret'.v = value
    /\ ret'.value = "True"

\* is_feature_enabled(g, gate) as the next event evaluates it, its storage
\* read succeeding
NextCheck(g, gate) == IsFeatureEnabled(guild_cache', guildRows', g, gate, FALSE).value

\* C13: after !config enable f reports success in guild g the check that
\* gates f's collection returns enabled for g on the next event, and after
\* !config disable f reports success it returns disabled, for f among emoji,
\* spam and call.
C13_CommandSetsGate ==
    [][\A g \in GuildIds, feature \in ValidFeatures :
          /\ (ReportsSuccess(feature, "True") /\ ret'.key = g) => NextCheck(g, GateOf(feature))
          /\ (ReportsSuccess(feature, "False") /\ ret'.key = g) => ~NextCheck(g, GateOf(feature))
      ]_vars

----------------------------------------------------------------------------
(* Claims on currency conversion, checked under SpecConvert and SpecRates *)

\* the positive Decimal n * 10^e
Dec(n, e) == Normal(FALSE, DigitsOf(n), e)

\* the conversions shown
Conversions == {reply[h] : h \in {h \in Handlers : reply[h].kind = "converted"}}

\* the exact product x * Decimal(str(rate)), when no rounding is needed
ExactProduct(x, r) == Normal(FALSE, LongProduct(x.digits, r.c, 0, << >>), x.exp + r.e)

\* C14: every conversion shown is X / rates[A] * rates[B] in Decimal
\* arithmetic, the division first; from a currency whose rate is 1.0 it is
\* exactly X * rates[B] whenever that product fits the precision; and 100 USD
\* under {USD: 1.0, CNY: 7.24} is shown as 724.00 CNY
C14_ConversionFormula ==
    \A c \in Conversions :
        /\ c.result = DecimalTimes(DecimalDivide(c.amount, c.rates[c.from]), c.rates[c.to])
        /\ (c.amount.kind = "finite" /\ c.rates[c.from] = Rate(1, 0) /\ c.rates[c.to].c > 0
              /\ Len(LongProduct(c.amount.digits, c.rates[c.to].c, 0, << >>)) <= DecimalPrec)
           => c.result = ExactProduct(c.amount, c.rates[c.to])
        /\ (c.amount = Dec(100, 0) /\ c.from = "USD" /\ c.to = "CNY"
              /\ c.rates["USD"] = Rate(1, 0) /\ c.rates["CNY"] = Rate(724, -2))
           => Hundredths(c.result) = Dec(72400, 0)

\* 100 USD has been converted to CNY under the fallback rates
C14_Witness ==
    /\ reply[1].kind = "converted"
    /\ reply[1].rates = FALLBACK_RATES
    /\ reply[1].amount = Dec(100, 0) /\ reply[1].from = "USD" /\ reply[1].to = "CNY"
    /\ Hundredths(reply[1].result) = Dec(72400, 0)

\* a conversion that can be taken back: a finite amount, no rate zero
Invertible(c) == c.amount.kind = "finite" /\ c.rates[c.from].c > 0 /\ c.rates[c.to].c > 0

\* what is shown after converting the result of c back under the same table
BackShown(c) == Hundredths(ConvertCurrency(c.result, c.to, c.from, c.rates))

\* C15 as stated: every amount converted and converted back under one table
\* is shown as the amount itself is shown
C15_RoundTripEveryAmount ==
    \A c \in Conversions : Invertible(c) => BackShown(c) = Hundredths(c.amount)

\* digits before the point of a positive Decimal
WholeDigits(x) == Len(x.digits) + x.exp

\* the amounts the round trip is claimed for: no more than two decimals and
\* no more than DecimalPrec - 4 digits before the point
RoundTripAmount(x) == x.kind = "finite" /\ x.exp >= -2 /\ WholeDigits(x) <= DecimalPrec - 4

\* C15, amended: an amount of at most two decimals and at most 24 digits
\* before the point, converted and converted back under one table of
\* non-zero rates, is shown as the amount itself
C15_RoundTripWithinPrecision ==
    \A c \in Conversions :
        (Invertible(c) /\ RoundTripAmount(c.amount)) => BackShown(c) = Hundredths(c.amount)

\* an amount of 24 nines and 99 hundredths went from CNY to ZAR, through a
\* division that was rounded, and comes back as itself
C15_Witness ==
    /\ reply[1].kind = "converted"
    /\ WholeDigits(reply[1].amount) = DecimalPrec - 4
    /\ reply[1].from = "CNY" /\ reply[1].to = "ZAR"
    /\ Invertible(reply[1])
    /\ Len(reply[1].result.digits) = DecimalPrec
    /\ BackShown(reply[1]) = Hundredths(reply[1].amount)

\* handler h starts a fetch in this step
FetchStarts(h) == task[h].pc = "idle" /\ task'[h].pc = "fetching"

\* handler h answers a request in this step without having fetched
ServedFromCache(h) ==
    /\ task[h].pc = "idle" /\ task'[h].pc = "idle"
    /\ reply'[h] # reply[h]
    /\ reply'[h].kind \in {"converted", "raised"}

\* no rates stored, no update time recorded, or more than 24 hours since
\* last_update
CacheExpired ==
    \/ DOMAIN rates = {}
    \/ last_update = NoUpdate
    \/ now - last_update > CacheDuration

\* C16: a fetch starts only when the cache is empty, unstamped or more than
\* 24 hours old, and a request answered without a fetch found none of these
\* and left the cache as it was, showing the stored table; a failed fetch
\* stores the fallback table and stamps last_update; and no fetch starts
\* within 24 hours after a failure
C16_FetchExactlyWhenExpired ==
    [][\A h \in Handlers :
          /\ FetchStarts(h) => CacheExpired
          /\ ServedFromCache(h) =>
                /\ ~CacheExpired
                /\ UNCHANGED <<rates, last_update>>
                /\ reply'[h].kind = "converted" => reply'[h].rates = rates
          /\ (task[h].pc = "fetched" /\ ~task[h].success /\ task'[h].pc = "idle") =>
                rates' = FALLBACK_RATES /\ last_update' = now /\ failed_at' = now
          /\ (FetchStarts(h) /\ failed_at # NoUpdate) => now - failed_at > CacheDuration
      ]_vars

\* after a failed fetch, handler 2 was served the fallback table from the
\* cache, and more than 24 hours after the failure handler 1 is fetching again
C16_Witness ==
    /\ failed_at # NoUpdate
    /\ reply[2].kind = "converted" /\ reply[2].rates = FALLBACK_RATES
    /\ task[2].pc = "idle"
    /\ task[1].pc = "fetching"
    /\ now - failed_at > CacheDuration

\* the fetch of handler h comes back in this step
FetchEnds(h) == task[h].pc = "fetching" /\ task'[h].pc = "fetched"

\* get_exchange_rates of handler h returns in this step, after a fetch
RatesReturned(h) == task[h].pc = "fetched" /\ task'[h].pc = "idle"

\* a response that is an exception or a status other than 200
Failure(response) == response.status # 200 \/ response.body \in {"raised", "not json", "no rates"}

\* the tables get_exchange_rates has returned to the handlers
Returned == {reply[h].rates : h \in {h \in Handlers : reply[h].kind \in {"converted", "raised"}}}

\* C17: a fetch that meets a status other than 200 or an exception returns
\* False and stores nothing, and get_exchange_rates then returns the table
\* {USD: 1.0, CNY: 7.24, ZAR: 18.12}; every table returned, and the table
\* cached once there is one, has the three currencies with USD = 1.0
C17_FailedFetchFallsBack ==
    [][/\ \A h \in Handlers :
             /\ (FetchEnds(h) /\ Failure(task'[h].response)) =>
                   ~task'[h].success /\ UNCHANGED <<rates, last_update>>
             /\ (RatesReturned(h) /\ ~task[h].success) =>
                   /\ reply'[h].kind = "converted"
                   /\ reply'[h].rates = [USD |-> Rate(1, 0), CNY |-> Rate(724, -2), ZAR |-> Rate(1812, -2)]
       /\ \A table \in Returned' \cup ({rates'} \ {EmptyDict}) :
             DOMAIN table = SUPPORTED_CURRENCIES /\ table["USD"] = Rate(1, 0)
      ]_vars

\* live rates were cached, and a later fetch that met status 500 was
\* answered from the fallback table
C17_Witness ==
    /\ reply[1].kind = "converted" /\ reply[1].rates = FALLBACK_RATES
    /\ reply[2].kind = "converted" /\ reply[2].rates # FALLBACK_RATES
    /\ failed_at # NoUpdate /\ failed_at = last_update
    /\ rates = FALLBACK_RATES

\* a request that validation lets through: two different supported
\* currencies and an amount above zero
ValidRequest(r) ==
    /\ r.from \in SUPPORTED_CURRENCIES /\ r.to \in SUPPORTED_CURRENCIES
    /\ r.from # r.to
    /\ r.amount.kind \in {"finite", "Infinity"}
    /\ ~r.amount.neg
    /\ r.amount.kind = "finite" => r.amount.digits # << >>

\* handler h sends an error in this step
Rejected(h) == reply'[h].kind = "error" /\ reply'[h] # reply[h]

\* C19: a step that sends a validation error leaves the rates, last_update
\* and every handler as they were, so no fetch starts; every request that
\* starts a fetch or is answered from the cached rates names two different
\* supported currencies and an amount above zero
C19_RejectionChangesNothing ==
    [][\A h \in Handlers :
          /\ Rejected(h) =>
                /\ UNCHANGED <<rates, last_update, task, failed_at>>
                /\ reply'[h].error \in {"Invalid source currency", "Invalid target currency",
                                        "Source and target currencies cannot be the same!",
                                        "Invalid amount", "Amount must be greater than 0!"}
          /\ FetchStarts(h) => ValidRequest(task'[h])
          /\ (ServedFromCache(h) /\ reply'[h].kind = "converted") => ValidRequest(reply'[h])
      ]_vars

\* an amount that is not above zero was rejected before anything was ever
\* fetched: the cache is still empty and the handler is not waiting
C19_Witness ==
    /\ reply[1].kind = "error" /\ reply[1].error = "Amount must be greater than 0!"
    /\ task[1].pc = "idle"
    /\ rates = EmptyDict /\ last_update = NoUpdate

----------------------------------------------------------------------------
(* Claims on the AFK status, checked under SpecAfk *)

\* /afk sends a validation error in this step
AfkRejected == afkReply'.kind = "error" /\ afkReply' # afkReply

\* C18: a /afk that is rejected for its expected_back or its timezone offset
\* leaves the users and the afk_status tables exactly as they were
C18_RejectedAfkLeavesStore ==
    [][AfkRejected => UNCHANGED <<userTable, afkStatuses>>]_vars

\* the listener l takes up a message in this step
MessageTaken(l) == listener[l].pc \in {"idle", "done"} /\ listener'[l] # listener[l]

\* the rows of afk_status that do not belong to user u
StatusesOfOthers(statuses, u) == SelectSeq(statuses, LAMBDA row : row.user # u)

\* C20: when the listener takes up a message of a user who has a User row
\* and an AFKStatus, that user has no AFKStatus afterwards, the rows of the
\* other users stay and a welcome is sent; a message of a user without a
\* User row or without an AFKStatus changes no row and sends no welcome; the
\* rest of the listener changes no row
C20_MessageEndsAfk ==
    [][\A l \in Listeners :
          /\ MessageTaken(l) =>
                LET u == listener'[l].author
                IN /\ IsAfk(userTable, afkStatuses, u) =>
                         /\ StatusesOf(afkStatuses', u) = {}
                         /\ StatusesOfOthers(afkStatuses', u) = StatusesOfOthers(afkStatuses, u)
                         /\ listener'[l].welcome # ""
                   /\ ~IsAfk(userTable, afkStatuses, u) =>
                         /\ afkStatuses' = afkStatuses
                         /\ listener'[l].welcome = ""
                   /\ userTable' = userTable
          /\ (listener[l].pc = "sending" /\ listener'[l] # listener[l]) =>
                UNCHANGED <<afkStatuses, userTable>>
      ]_vars

\* user 1 was AFK and has sent a message: the welcome went out, the status
\* of user 1 is gone and the status of user 2 is still there
C20_Witness ==
    /\ listener[1].pc # "idle" /\ listener[1].author = 1 /\ listener[1].welcome # ""
    /\ 1 \in DOMAIN userTable
    /\ StatusesOf(afkStatuses, 1) = {}
    /\ StatusesOf(afkStatuses, 2) # {}

----------------------------------------------------------------------------
(* Claims on the AFK status over time, checked under SpecAfkClock *)

\* /afk of user u goes through in this step
AfkSets(u) ==
    /\ afkReply' # afkReply \/ (afkStatuses' # afkStatuses /\ listener' = listener)
    /\ afkReply'.kind = "set" /\ afkReply'.user = u

\* the row of afk_status the user u has
StatusOf(statuses, u) == statuses[FirstStatusOf(statuses, u)]

\* C21: no user ever has two rows in afk_status, and a /afk that goes
\* through for a user who has a row puts its reason, its expected return time
\* and the time of the call into that row, adds no row and leaves the rows of
\* the others
C21_OneStatusPerUser ==
    /\ [](\A u \in UserIds : Cardinality(StatusesOf(afkStatuses, u)) <= 1)
    /\ [][\A u \in UserIds :
             (AfkSets(u) /\ StatusesOf(afkStatuses, u) # {}) =>
                /\ Len(afkStatuses') = Len(afkStatuses)
                /\ FirstStatusOf(afkStatuses', u) = FirstStatusOf(afkStatuses, u)
                /\ StatusesOfOthers(afkStatuses', u) = StatusesOfOthers(afkStatuses, u)
                /\ StatusOf(afkStatuses', u) =
                      [user |-> u, reason |-> afkReply'.reason,
                       expected_back |-> afkReply'.expected_back, set_at |-> now]
       ]_vars

\* user 1 went AFK, user 2 went AFK after that, and user 1 has called /afk
\* again since: the row of user 1 is still the first and the only one of
\* user 1, and it holds the later time and the new reason
C21_Witness ==
    /\ Len(afkStatuses) = 2
    /\ afkStatuses[1].user = 1 /\ afkStatuses[2].user = 2
    /\ afkStatuses[1].set_at > afkStatuses[2].set_at
    /\ afkStatuses[1].set_at > 3600
    /\ afkStatuses[1].reason = "" /\ afkStatuses[1].expected_back # << >>
    /\ afkReply.kind = "set" /\ afkReply.user = 1

\* the listener l takes up a message of a user who set the AFK status
\* reason="lunch" expected_back="2h" less than a minute ago
BackFromLunchAtOnce(l) ==
    LET u == listener'[l].author
    IN /\ MessageTaken(l)
       /\ IsAfk(userTable, afkStatuses, u)
       /\ StatusOf(afkStatuses, u).reason = "lunch"
       /\ StatusOf(afkStatuses, u).expected_back = <<StatusOf(afkStatuses, u).set_at + 7200>>
       /\ now - StatusOf(afkStatuses, u).set_at < 60

\* C22 as stated: /afk reason="lunch" expected_back="2h" followed less than a
\* minute later by a message of the same user removes the AFK status and
\* reports an AFK duration of "0h 0m"
C22_ReportsZeroHoursZeroMinutes ==
    [][\A l \in Listeners :
          BackFromLunchAtOnce(l) =>
             /\ StatusesOf(afkStatuses', listener'[l].author) = {}
             /\ listener'[l].welcome = "0h 0m"
      ]_vars

\* C22: /afk reason="lunch" expected_back="2h" followed less than a minute
\* later by a message of the same user removes the AFK status and reports an
\* AFK duration of "0m": the hours are named only when there is at least one
C22_ReportsZeroMinutes ==
    [][\A l \in Listeners :
          BackFromLunchAtOnce(l) =>
             /\ StatusesOf(afkStatuses', listener'[l].author) = {}
             /\ listener'[l].welcome = "0m"
      ]_vars

\* user 1 set reason="lunch" expected_back="2h" and has sent a message two
\* seconds later: the status is gone and the welcome has been made
C22_Witness ==
    /\ afkReply.kind = "set" /\ afkReply.user = 1 /\ afkReply.reason = "lunch"
    /\ afkReply.expected_back = <<now - 2 + 7200>>
    /\ listener[1].pc # "idle" /\ listener[1].author = 1 /\ listener[1].welcome = "0m"
    /\ StatusesOf(afkStatuses, 1) = {}

----------------------------------------------------------------------------
(* Claims on the mentions of AFK users, checked under SpecAfk *)

\* the listener l goes on after a send in this step
LoopResumes(l) == listener[l].pc = "sending" /\ listener'[l] # listener[l]

\* C24: the listener never raises, and each time its loop over the mentions
\* goes on it passes over the mentioned users without a User row or without
\* an AFKStatus and sends one notification for the next one who has both,
\* with or without a reason or an expected return time
C24_NotifiesEveryAfkMention ==
    /\ [](\A l \in Listeners : listener[l].pc # "idle" => listener[l].raised = "")
    /\ [][\A l \in Listeners :
             LoopResumes(l) =>
                LET rest == SkipNotAfk(listener[l].mentions, userTable, afkStatuses)
                IN IF rest = << >>
                   THEN listener'[l].pc = "done" /\ listener'[l].notified = listener[l].notified
                   ELSE /\ listener'[l].pc = "sending"
                        /\ listener'[l].notified = Append(listener[l].notified, Head(rest))
       ]_vars

----------------------------------------------------------------------------
(* Claims on voice sessions, checked under SpecVoice *)

\* C23: no user ever has two open CallSession rows (rows whose leave_ts is
\* null), however joins, leaves and switches are interleaved with the
\* enabling and disabling of call tracking
C23_OneOpenSessionPerUser ==
    \A u \in UserIds : Cardinality(OpenSessions(callSessions, u)) <= 1

\* whether the call_tracking gate of guild g lets an event through
CallTrackingOn(g) == IsFeatureEnabled(guild_cache, guildRows, g, "call_tracking", FALSE).value

\* the number of open sessions of user u
OpenCount(sessions, u) == Cardinality(OpenSessions(sessions, u))

\* the row i of sessions closed at time t: leave_ts and the duration
ClosedAt(sessions, i, t) ==
    /\ "duration" \in DOMAIN sessions[i]
    /\ sessions[i].leave_ts = t
    /\ sessions[i].duration >= 0

\* C25: with call tracking enabled, a join adds one open CallSession of the
\* member; a leave sets leave_ts and duration = leave - join, never negative,
\* in the open session of the member that was joined last and changes
\* nothing when the member has none; a switch leaves the member's number of
\* open sessions as it was
C25_VoiceEventsKeepSessions ==
    [][\A u \in UserIds :
          (voice'[u] # voice[u] /\ CallTrackingOn(1)) =>
             IF voice[u] = NoChannel
             THEN /\ Len(callSessions') = Len(callSessions) + 1
                  /\ OpenCount(callSessions', u) = OpenCount(callSessions, u) + 1
                  /\ SubSeq(callSessions', 1, Len(callSessions)) = callSessions
             ELSE IF voice'[u] = NoChannel
             THEN IF OpenSessions(callSessions, u) = {}
                  THEN callSessions' = callSessions
                  ELSE \E i \in LatestOpen(callSessions, u) :
                          /\ ClosedAt(callSessions', i, now)
                          /\ callSessions'[i].duration = now - callSessions[i].join_ts
                          /\ \A j \in 1..Len(callSessions) : j # i => callSessions'[j] = callSessions[j]
                          /\ Len(callSessions') = Len(callSessions)
             ELSE OpenCount(callSessions', u) = OpenCount(callSessions, u)
      ]_vars

----------------------------------------------------------------------------
(* Claims on the coherence of the cache, checked under SpecConfig *)

\* the cached configuration of guild g is what the stored row of g holds
GuildEntryCoherent(g) ==
    /\ g \in DOMAIN guildRows
    /\ DOMAIN guild_cache[g] = ToggleKeys \cup {"settings"}
    /\ \A k \in ToggleKeys : guild_cache[g][k] = guildRows[g][k]
    /\ guild_cache[g].settings = SettingsOf(guildRows[g])

\* the cached configuration of user u is what the stored row of u holds
UserEntryCoherent(u) ==
    /\ u \in DOMAIN userRows
    /\ DOMAIN user_cache[u] = {"opt_out", "settings"}
    /\ user_cache[u].opt_out = userRows[u].opt_out
    /\ user_cache[u].settings = SettingsOf(userRows[u])

\* C26: every entry of guild_cache and of user_cache is the configuration the
\* store holds for its key, whatever reads and writes, failed or not, came
\* before
C26_CacheCoherence ==
    /\ \A g \in DOMAIN guild_cache : GuildEntryCoherent(g)
    /\ \A u \in DOMAIN user_cache : UserEntryCoherent(u)

\* a write to guild 1 has just failed at save while its configuration was
\* cached, after an earlier write had changed a toggle and the blob and a
\* read had cached them
C26_Witness ==
    /\ ret.op = "update_guild_config" /\ ret.key = 1 /\ ret.storageFailed
    /\ 1 \in DOMAIN guild_cache
    /\ guild_cache[1].spam_detection_enabled # toggleDefault
    /\ guild_cache[1].settings # EmptyDict
    /\ 1 \in DOMAIN user_cache /\ user_cache[1].opt_out = "True"

----------------------------------------------------------------------------
(* Claims on the gates before spam detection, checked under SpecGate *)

\* the stored row of guild g has the toggle key switched on
StoredOn(g, key) == g \in DOMAIN guildRows /\ guildRows[g][key] = "True"

\* the read of the settings of user u goes to the store and fails there
UserReadFails(u, userFails) == userFails /\ u \notin DOMAIN user_cache

\* the message leaves the spam windows and the spam counters as they were
SpamUntouched == UNCHANGED <<spam_cache, spamStats>>

MatchesTextRule(c) ==
    \/ DetectCharRepetition(c, config.SPAM_CHAR_REPETITION_THRESHOLD)
    \/ DetectCapsSpam(c, config.SPAM_CAPS_RATIO_THRESHOLD)

\* C28: a message classified as char_repetition or caps_spam leaves every
\* window as it was, expired entries included; the window of a user changes
\* only by a message of that user that matches neither rule 1 nor rule 2,
\* which prunes it and appends the message's hash
C28_TextSpamLeavesWindow ==
    [][/\ (DetectionStep /\ last'.spam_type \in {"char_repetition", "caps_spam"}) =>
             UNCHANGED spam_cache
       /\ (DetectionStep /\ MatchesTextRule(last'.content)) =>
             (last'.spam_type \in {"char_repetition", "caps_spam"} /\ UNCHANGED spam_cache)
       /\ spam_cache' # spam_cache =>
             /\ DetectionStep
             /\ ~MatchesTextRule(last'.content)
             /\ spam_cache'[last'.user] =
                   Append(Unexpired(WindowOf(spam_cache, last'.user), now),
                          [h |-> Md5(last'.content), t |-> now])
      ]_vars

\* a message with a run or in capitals was classified two seconds after one
\* that matched no text rule: the window still holds the entry of the first,
\* expired by now, and nothing else
C28_Witness ==
    /\ last.ran /\ last.spam_type \in {"char_repetition", "caps_spam"}
    /\ last.t = MaxWindow
    /\ WindowOf(spam_cache, last.user) = <<[h |-> Md5(<<"a", "b">>), t |-> 0]>>

----------------------------------------------------------------------------
(* Claims on concurrent conversions, checked under SpecRates *)

\* the cache holds rates a fetch stored, and they have not expired
LiveRatesCached ==
    /\ DOMAIN rates # {} /\ rates # FALLBACK_RATES
    /\ last_update # NoUpdate /\ now - last_update <= CacheDuration

\* C29: once a fetch has stored live rates, no handler replaces them by the
\* fallback table before they expire, however the handlers that found the
\* cache stale are interleaved
C29_LiveRatesNotOverwritten ==
    [][LiveRatesCached => rates' # FALLBACK_RATES]_vars

----------------------------------------------------------------------------
(* Claims on the emoji statistics, checked under SpecEmoji *)

\* the sum of the counts of a dict
RECURSIVE SumOfCounts(_)
SumOfCounts(d) ==
    IF DOMAIN d = {} THEN 0
    ELSE LET key == CHOOSE k \in DOMAIN d : TRUE
         IN d[key] + SumOfCounts(DictDel(d, key))

\* the three dicts of counts of an entry
EmojiKinds == {"unicode_emojis", "text_emoticons", "custom_emojis"}

\* the content holds something _process_emoji_tracking counts: an emoji
\* character, a text one of the emoticon patterns matches, or a custom emoji
HasTrackableEmoji(c) ==
    \E i \in 1..Len(c) :
       \/ c[i] \in UnicodeEmoji
       \/ \E k \in 1..Len(EMOTICON_PATTERNS) :
             \E a \in 1..Len(EMOTICON_PATTERNS[k].alts) :
                StandsAt(EMOTICON_PATTERNS[k].alts[a], c, i)
       \/ CustomAt(c, i).len > 0

\* every entry and every count of before is in after and is not smaller
CountsGrow(before, after) ==
    \A u \in DOMAIN before :
       /\ u \in DOMAIN after
       /\ after[u].total_emojis >= before[u].total_emojis
       /\ \A kind \in EmojiKinds :
             \A key \in DOMAIN before[u][kind] :
                /\ key \in DOMAIN after[u][kind]
                /\ after[u][kind][key] >= before[u][kind][key]

\* C30: in every entry total_emojis is the sum of the counts of the three
\* dicts; no step removes an entry or a count or makes one smaller; and the
\* file is written once more, with the statistics as they then are, by a
\* message that holds a trackable emoji, and is left alone by every other
\* message and every other step
C30_TotalIsSumAndFileFollows ==
    /\ [](\A u \in DOMAIN emoji_stats :
             emoji_stats[u].total_emojis =
                SumOfCounts(emoji_stats[u].unicode_emojis)
                + SumOfCounts(emoji_stats[u].text_emoticons)
                + SumOfCounts(emoji_stats[u].custom_emojis))
    /\ [][/\ CountsGrow(emoji_stats, emoji_stats')
          /\ sends' = sends => emoji_file' = emoji_file
          /\ \A u \in UserIds, c \in EmojiMessages :
                OnMessage(FALSE, u, 1, c, FALSE, FALSE, "none") =>
                   IF HasTrackableEmoji(c)
                   THEN /\ emoji_file'.writes = emoji_file.writes + 1
                        /\ emoji_file'.data = emoji_stats'
                   ELSE emoji_file' = emoji_file
        ]_vars

\* one member sent `:(`, which two patterns count under the same key, and the
\* other a message without emoji: the first has a total of two and the file
\* was written once, the second has an entry with a total of zero
C30_Witness ==
    /\ sends = 2
    /\ DOMAIN emoji_stats = {1, 2}
    /\ emoji_stats[1].text_emoticons = DictSet(EmptyDict, ":(", 2)
    /\ emoji_stats[1].total_emojis = 2
    /\ emoji_stats[2].total_emojis = 0
    /\ emoji_file.writes = 1
    /\ emoji_file.data[1].total_emojis = 2


====
